---- MODULE Spec2Model ----
(***************************************************************************)
(* A model of qualtrics_report_generator.py: the value classifier          *)
(* (detect_value_type and its predicates), the text normalizer             *)
(* (clean_html_text), the label resolver (get_label_from_qsf) and the      *)
(* column structure resolver (extract_questions_with_qsf,                  *)
(* extract_questions_from_csv).                                            *)
(*                                                                         *)
(* Python strings are TLA+ strings; characters are strings of length one.  *)
(* Two non-ASCII characters are written with ASCII stand-ins: "^" stands   *)
(* for U+00B2 SUPERSCRIPT TWO (str.isdigit() is true of it, the regex \d   *)
(* does not match it and int() rejects it) and "~" stands for the arrow    *)
(* glyph of is_hierarchical.  Neither stand-in occurs with its ASCII       *)
(* meaning in any input of the model.                                      *)
(***************************************************************************)
EXTENDS Integers, Sequences, FiniteSets, TLC

VARIABLES
    value,          \* the cell handed to detect_value_type
    question_text,  \* the text of the enclosing question
    column_id,      \* the identifier of the cell's column
    value_type,     \* the tag returned, "pending" before the call
    html_text,      \* the text handed to clean_html_text
    cleaned,        \* clean_html_text(html_text), once computed
    recleaned,      \* clean_html_text(cleaned), once computed
    clean_calls,    \* the number of calls of clean_html_text made
    lbl_info,       \* the question definition handed to get_label_from_qsf
    lbl_index,      \* the sub-index of the column identifier handed to it
    lbl_type,       \* "choice" or "answer"
    lbl_label,      \* the label returned, once computed
    label_calls,    \* the number of calls of get_label_from_qsf made
    header,         \* the columns of the CSV: identifier and header text
    definitions,    \* the definition table, export tag -> definition
    pos_qsf,        \* the column that extract_questions_with_qsf scans next
    questions_qsf,  \* its questions dict
    raised_qsf,     \* the exception that ended its scan, "" if none
    pos_csv,        \* the column that extract_questions_from_csv scans next
    questions_csv,  \* its questions dict
    raised_csv,     \* the exception that ended its scan, "" if none
    row_keys,       \* the keys of a rows dict, in insertion order
    sorted_rows,    \* sorted(row_keys, key=sort_row_key), once computed
    sort_raised,    \* the exception that sorted() raised, "" if none
    sort_calls,     \* the number of calls of sorted() made
    qsf_elements,   \* data['SurveyElements'] of the survey definition
    qsf_pos,        \* the number of elements parse_qsf has looped over
    qsf_parsed,     \* parse_qsf's questions dict
    run_input,      \* the files a run of process_qualtrics finds
    run_phase,      \* the step of process_qualtrics, or of main, a run is at
    run_raised,     \* the exception raised in the run, "" if none
    failed_phase,   \* the step that raised it
    has_qsf,        \* process_qualtrics's has_qsf
    phases_done,    \* the steps that have returned
    output_file,    \* the content of the file at output_html
    output_writes,  \* the number of times the run opened output_html for writing
    run_outcome,    \* what main reported: "" so far, "generated" or "failed"
    run_reports,    \* the number of failure reports main printed
    rpt_survey,     \* the CSV header and the definitions of a report
    rpt_respondents,\* the respondents' rows
    rpt_questions,  \* the questions dict of the report
    rpt_phase,      \* extract, summary, generate, done or raised
    rpt_summary,    \* the numbers of the report's summary block
    rpt_cards,      \* the question cards generate_html has built, the last one
                    \* unfinished when an answer raised
    rpt_raised,     \* the exception that ended the report, "" if none
    csv_lines,      \* the lines of the CSV after its two header rows
    df,             \* the DataFrame of the responses
    resp_phase,     \* read, skip, process or done
    resp_list,      \* process_qualtrics's respondents list
    resp_returned   \* len(respondents) as process_qualtrics returns it

classifier_vars == <<value, question_text, column_id, value_type>>

normalizer_vars == <<html_text, cleaned, recleaned, clean_calls>>

label_vars == <<lbl_info, lbl_index, lbl_type, lbl_label, label_calls>>

resolver_vars ==
    <<header, definitions, pos_qsf, questions_qsf, raised_qsf, pos_csv, questions_csv,
      raised_csv>>

sorter_vars == <<row_keys, sorted_rows, sort_raised, sort_calls>>

parser_vars == <<qsf_elements, qsf_pos, qsf_parsed>>

run_vars ==
    <<run_input, run_phase, run_raised, failed_phase, has_qsf, phases_done, output_file,
      output_writes, run_outcome, run_reports>>

render_vars ==
    <<rpt_survey, rpt_respondents, rpt_questions, rpt_phase, rpt_summary, rpt_cards,
      rpt_raised>>

respond_vars == <<csv_lines, df, resp_phase, resp_list, resp_returned>>

report_vars == <<sorter_vars, parser_vars, run_vars, render_vars, respond_vars>>

vars == <<classifier_vars, normalizer_vars, label_vars, resolver_vars, report_vars>>

(***************************************************************************)
(* Python str operations                                                   *)
(***************************************************************************)

Ch(s, i) == SubSeq(s, i, i)

Whitespace == {" ", "\t", "\n", "\r"}

AsciiDigits == {"0", "1", "2", "3", "4", "5", "6", "7", "8", "9"}

SUP2 == "^"

ARROW == "~"

UpperAlpha == "ABCDEFGHIJKLMNOPQRSTUVWXYZ"

LowerAlpha == "abcdefghijklmnopqrstuvwxyz"

SetMin(S) == CHOOSE x \in S : \A y \in S : x <= y

SetMax(S) == CHOOSE x \in S : \A y \in S : x >= y

\* min(S, default=d) / max(S, default=d)
SetMinOr(S, d) == IF S = {} THEN d ELSE SetMin(S)

SetMaxOr(S, d) == IF S = {} THEN d ELSE SetMax(S)

\* str.strip(): leading and trailing whitespace removed.
Strip(s) ==
    LET idx == {i \in 1..Len(s) : Ch(s, i) \notin Whitespace}
    IN  IF idx = {} THEN "" ELSE SubSeq(s, SetMin(idx), SetMax(idx))

UpperLetters == {Ch(UpperAlpha, i) : i \in 1..26}

LowerCh(c) ==
    IF c \in UpperLetters
    THEN Ch(LowerAlpha, CHOOSE i \in 1..26 : Ch(UpperAlpha, i) = c)
    ELSE c

\* Recursions over a string halve it, so that their depth stays logarithmic.
RECURSIVE LowerRange(_, _, _)
LowerRange(s, a, b) ==
    IF a > b THEN ""
    ELSE IF a = b THEN LowerCh(Ch(s, a))
    ELSE LET m == (a + b) \div 2
         IN  LowerRange(s, a, m) \o LowerRange(s, m + 1, b)

\* str.lower()
Lower(s) == LowerRange(s, 1, Len(s))

\* s[a-1:b] of Python: a slice clamped to the string
Slice(s, a, b) ==
    IF a > Len(s) \/ b < a THEN ""
    ELSE SubSeq(s, a, IF b > Len(s) THEN Len(s) ELSE b)

\* str.startswith / str.endswith / the `in` operator on strings
StartsWith(s, p) == Len(p) <= Len(s) /\ SubSeq(s, 1, Len(p)) = p

EndsWith(s, p) == Len(p) <= Len(s) /\ SubSeq(s, Len(s) - Len(p) + 1, Len(s)) = p

Contains(s, p) == \E i \in 1..(Len(s) - Len(p) + 1) : SubSeq(s, i, i + Len(p) - 1) = p

\* str.split(sep) for a one-character separator
RECURSIVE SplitRange(_, _, _, _)
SplitRange(s, sep, a, b) ==
    IF a > b THEN <<"">>
    ELSE IF a = b THEN (IF Ch(s, a) = sep THEN <<"", "">> ELSE <<Ch(s, a)>>)
    ELSE LET m == (a + b) \div 2
             l == SplitRange(s, sep, a, m)
             r == SplitRange(s, sep, m + 1, b)
         IN  SubSeq(l, 1, Len(l) - 1) \o <<l[Len(l)] \o r[1]>> \o Tail(r)

Split(s, sep) == SplitRange(s, sep, 1, Len(s))

\* str.isdigit(): non-empty, every character a digit (superscripts included)
IsDigit(s) == s # "" /\ \A i \in 1..Len(s) : Ch(s, i) \in AsciiDigits \cup {SUP2}

\* int(s) raises ValueError on a str.isdigit() string that is not decimal
IntRaises(s) == \E i \in 1..Len(s) : Ch(s, i) \notin AsciiDigits

DigitVal(c) == CHOOSE d \in 0..9 : Ch("0123456789", d + 1) = c

\* Python integers are unbounded; the code compares int(s) with bounds below
\* 301 and takes it modulo 100 only inside 100..300, so a value of more than
\* four significant digits is represented by BigInt.
BigInt == 10000

RECURSIVE IntFrom(_, _, _)
IntFrom(s, i, acc) ==
    IF i > Len(s) THEN acc
    ELSE IF acc >= 1000 THEN BigInt
    ELSE IntFrom(s, i + 1, acc * 10 + DigitVal(Ch(s, i)))

IntOf(s) == IntFrom(s, 1, 0)

\* the first index >= i of s whose character is not in S (Len(s) + 1 if none)
SkipWhile(s, i, S) ==
    SetMin({j \in i..Len(s) : Ch(s, j) \notin S} \cup {Len(s) + 1})

RECURSIVE SumLenRange(_, _, _)
SumLenRange(parts, a, b) ==
    IF a > b THEN 0
    ELSE IF a = b THEN Len(parts[a])
    ELSE LET m == (a + b) \div 2
         IN  SumLenRange(parts, a, m) + SumLenRange(parts, m + 1, b)

\* sum(len(p) for p in parts)
SumLen(parts) == SumLenRange(parts, 1, Len(parts))

(***************************************************************************)
(* Values: a cell is NaN/None or a string                                  *)
(***************************************************************************)

NaN == [na |-> TRUE, s |-> ""]

Str(s) == [na |-> FALSE, s |-> s]

pd_isna(v) == v.na

safe_str(v) == IF pd_isna(v) THEN "" ELSE Strip(v.s)

is_empty(v) == pd_isna(v) \/ safe_str(v) = ""

(***************************************************************************)
(* Constants of the classifier                                             *)
(***************************************************************************)

LONG_TEXT_THRESHOLD == 200

NUMERIC_CODE_MAX == 20

NUMERIC_CODE_RANGE_MIN == 100

NUMERIC_CODE_RANGE_MAX == 300

MULTI_VALUE_AVG_LENGTH_MAX == 40

TIMING_SUFFIXES ==
    {"_Page Submit", "_First Click", "_Last Click", "_Click Count",
     "_PageSubmit", "_FirstClick", "_LastClick", "_ClickCount"}

NUMERIC_QUESTION_KEYWORDS ==
    {"number", "count", "total", "how many", "percent", "%",
     "year", "age", "score", "gpa", "mcat", "credits", "hours",
     "fee", "tuition", "salary", "amount", "$", "usd", "dollar",
     "phone", "zip", "code", "id", "size", "rate", "ratio",
     "enrollment", "residents", "men", "women", "graduates",
     "indebtedness", "funds", "faculty", "research", "nih",
     "rank", "rating", "scale", "slider", "nps"}

FILE_EXTENSIONS ==
    {".pdf", ".doc", ".docx", ".xls", ".xlsx", ".jpg", ".jpeg",
     ".png", ".gif", ".mp3", ".mp4", ".zip", ".csv", ".txt"}

URL_PREFIXES == {"http://", "https://", "www.", "ftp://"}

contains_any(text, keywords) ==
    LET text_lower == Lower(text)
    IN  \E kw \in keywords : Contains(text_lower, kw)

(***************************************************************************)
(* The predicates of the decision list                                     *)
(***************************************************************************)

\* an int() call of is_numeric_code that raises ValueError
is_numeric_code_raises(v, qtext) ==
    LET val == safe_str(v)
    IN  /\ val # ""
        /\ ~contains_any(qtext, NUMERIC_QUESTION_KEYWORDS)
        /\ ~(/\ Contains(val, ",")
             /\ \A k \in DOMAIN Split(val, ",") :
                    LET p == Strip(Split(val, ",")[k]) IN IsDigit(p) /\ Len(p) <= 3)
        /\ IsDigit(val)
        /\ IntRaises(val)

is_numeric_code_NoCommaCodes(v, qtext) ==
    LET val == safe_str(v)
    IN  /\ val # ""
        /\ ~contains_any(qtext, NUMERIC_QUESTION_KEYWORDS)
        /\ IsDigit(val)
        /\ LET num == IntOf(val)
           IN  \/ (1 <= num /\ num <= NUMERIC_CODE_MAX)
               \/ (NUMERIC_CODE_RANGE_MIN <= num /\ num <= NUMERIC_CODE_RANGE_MAX
                   /\ num % 100 # 0)

is_numeric_code(v, qtext) ==
    LET val == safe_str(v)
        parts == Split(val, ",")
    IN  /\ val # ""
        /\ ~contains_any(qtext, NUMERIC_QUESTION_KEYWORDS)
        /\ \/ /\ Contains(val, ",")
              /\ \A k \in DOMAIN parts :
                     LET p == Strip(parts[k]) IN IsDigit(p) /\ Len(p) <= 3
           \/ /\ IsDigit(val)
              /\ LET num == IntOf(val)
                 IN  \/ (1 <= num /\ num <= NUMERIC_CODE_MAX)
                     \/ (NUMERIC_CODE_RANGE_MIN <= num /\ num <= NUMERIC_CODE_RANGE_MAX
                         /\ num % 100 # 0)

is_url(v) == \E p \in URL_PREFIXES : StartsWith(Lower(safe_str(v)), p)

is_file_path(v) == \E ext \in FILE_EXTENSIONS : EndsWith(Lower(safe_str(v)), ext)

\* the end of a match of \d+\.?\d* at index i of s, 0 when there is none
NumberEnd(s, i) ==
    LET a == SkipWhile(s, i, AsciiDigits)
        b == IF a <= Len(s) /\ Ch(s, a) = "." THEN a + 1 ELSE a
    IN  IF a = i THEN 0 ELSE SkipWhile(s, b, AsciiDigits)

\* the end of a match of <number>\s*<sep>\s*<number> at index i, 0 when none;
\* sep = "" stands for an optional comma followed by y: (the fourth pattern)
PairEnd(s, i, sep) ==
    LET a == NumberEnd(s, i)
        b == SkipWhile(s, a, Whitespace)
        c == IF sep = ""
             THEN LET c1 == IF b <= Len(s) /\ Ch(s, b) = "," THEN b + 1 ELSE b
                      c2 == SkipWhile(s, c1, Whitespace)
                  IN  IF Lower(Slice(s, c2, c2 + 1)) = "y:"
                      THEN SkipWhile(s, c2 + 2, Whitespace) ELSE 0
             ELSE IF b <= Len(s) /\ Ch(s, b) = sep
                  THEN SkipWhile(s, b + 1, Whitespace) ELSE 0
    IN  IF a = 0 \/ c = 0 THEN 0 ELSE NumberEnd(s, c)

is_coordinate(v) ==
    LET val == safe_str(v)
        n == Len(val)
    IN  \/ PairEnd(val, 1, ",") = n + 1
        \/ (StartsWith(val, "(") /\ EndsWith(val, ")") /\ n >= 2
            /\ PairEnd(SubSeq(val, 1, n - 1), 2, ",") = n)
        \/ PairEnd(val, 1, ":") = n + 1
        \/ (Lower(Slice(val, 1, 2)) = "x:"
            /\ PairEnd(val, SkipWhile(val, 3, Whitespace), "") = n + 1)

\* a check that takes no column for a timing column
is_timing_column_Never(col) == FALSE

is_timing_column(col) == \E suffix \in TIMING_SUFFIXES : Contains(col, suffix)

is_json(v) ==
    LET val == safe_str(v)
    IN  \/ (StartsWith(val, "{") /\ EndsWith(val, "}"))
        \/ (StartsWith(val, "[") /\ EndsWith(val, "]"))

is_hierarchical(v) ==
    LET val == safe_str(v)
    IN  Contains(val, " > ") \/ Contains(val, " >> ") \/ Contains(val, " " \o ARROW \o " ")

is_multi_value(v, separator) ==
    LET val == safe_str(v)
        parts == Split(val, separator)
        text_idx == {k \in DOMAIN parts : Len(Strip(parts[k])) > 2}
        total == SumLen([k \in DOMAIN parts |->
                            IF k \in text_idx THEN Strip(parts[k]) ELSE ""])
    IN  /\ Contains(val, separator)
        /\ ~(\A k \in DOMAIN parts :
                 LET p == Strip(parts[k]) IN IsDigit(p) /\ Len(p) <= 3)
        /\ ~is_coordinate(v)
        /\ Cardinality(text_idx) >= 2
        /\ ~(total > MULTI_VALUE_AVG_LENGTH_MAX * Cardinality(text_idx))

is_long_text(v) == Len(safe_str(v)) > LONG_TEXT_THRESHOLD

\* the outcome of a call that raises
ValueError == "ValueError"

detect_value_type(v, qtext, col) ==
    IF is_empty(v) THEN "empty"
    ELSE IF is_timing_column(col) THEN "timing"
    ELSE IF is_url(v) THEN (IF is_file_path(v) THEN "file" ELSE "url")
    ELSE IF is_file_path(v) THEN "file"
    ELSE IF is_coordinate(v) THEN "coordinate"
    ELSE IF is_json(v) THEN "json"
    ELSE IF is_hierarchical(v) THEN "hierarchical"
    ELSE IF is_multi_value(v, "|") THEN "pipe_list"
    ELSE IF is_multi_value(v, ";") THEN "semicolon_list"
    ELSE IF is_multi_value(v, ",") THEN "comma_list"
    ELSE IF is_long_text(v) THEN "long_text"
    ELSE IF is_numeric_code_raises(v, qtext) THEN ValueError
    ELSE IF is_numeric_code(v, qtext) THEN "code"
    ELSE "text"

(***************************************************************************)
(* Regular expressions (re.sub, re.split) as used by the text functions.   *)
(* A pattern is a sequence of items, each matched min..max times, greedy   *)
(* and with backtracking as in Python:                                     *)
(*   lit    the string arg, letter case ignored (re.IGNORECASE)            *)
(*   exact  the string arg                                                 *)
(*   ws     one whitespace character (\s)                                  *)
(*   digit  one decimal digit (\d)                                         *)
(*   not    one character other than arg                                   *)
(*   end    the end of the string ($, also before a final newline)         *)
(* max = Unbounded stands for no upper limit.                              *)
(***************************************************************************)

Unbounded == -1

Item(kind, arg, min, max) == [kind |-> kind, arg |-> arg, min |-> min, max |-> max]

Lit(str) == Item("lit", Lower(str), 1, 1)

OptLit(str) == Item("lit", Lower(str), 0, 1)

Exact(str) == Item("exact", str, 1, 1)

WsStar == Item("ws", "", 0, Unbounded)

WsPlus == Item("ws", "", 1, Unbounded)

NotStar(c) == Item("not", c, 0, Unbounded)

\* whether one occurrence of the item starts at index i of s
ItemAt(it, s, i) ==
    CASE it.kind = "lit" ->
            /\ i + Len(it.arg) - 1 <= Len(s)
            /\ \A k \in 1..Len(it.arg) : LowerCh(Ch(s, i + k - 1)) = Ch(it.arg, k)
      [] it.kind = "exact" -> Slice(s, i, i + Len(it.arg) - 1) = it.arg
      [] it.kind = "ws" -> i <= Len(s) /\ Ch(s, i) \in Whitespace
      [] it.kind = "digit" -> i <= Len(s) /\ Ch(s, i) \in AsciiDigits
      [] it.kind = "not" -> i <= Len(s) /\ Ch(s, i) # it.arg
      [] it.kind = "end" -> i = Len(s) + 1 \/ (i = Len(s) /\ Ch(s, i) = "\n")

ItemWidth(it) == IF it.kind \in {"lit", "exact"} THEN Len(it.arg) ELSE IF it.kind = "end" THEN 0 ELSE 1

\* the longest run of occurrences of the item from index i, at most its max
ItemRun(it, s, i) ==
    LET w == ItemWidth(it)
        cap == IF w = 0 THEN 1
               ELSE IF it.max = Unbounded THEN (Len(s) - i + 1) \div w ELSE it.max
    IN  SetMinOr({c \in 1..cap : ~ItemAt(it, s, i + (c - 1) * w)},
                 (IF cap < 0 THEN 0 ELSE cap) + 1) - 1

\* ends[c] is where the rest of a pattern ends after c repetitions of an
\* item (0: it does not match); a greedy item takes the most repetitions
\* that let the rest match
Greediest(ends) ==
    LET good == {c \in DOMAIN ends : ends[c] # 0}
    IN  IF good = {} THEN 0 ELSE ends[SetMax(good)]

\* the index after the match of items[k..] that Python finds at index i of s,
\* 0 when there is none
RECURSIVE MatchEnd(_, _, _, _)
MatchEnd(items, k, s, i) ==
    IF k > Len(items) THEN i
    ELSE Greediest([c \in items[k].min..ItemRun(items[k], s, i) |->
                       MatchEnd(items, k + 1, s, i + c * ItemWidth(items[k]))])

\* the first item of a pattern that every match must contain
Anchor(items) == SetMin({k \in DOMAIN items : items[k].min >= 1})

\* the start of the leftmost match at or after index i, 0 when there is none;
\* a match starts at or before an occurrence of the anchor, with an
\* occurrence of the anchor or of an item that precedes it
NextMatch(items, s, i) ==
    LET a == Anchor(items)
        last == SetMaxOr({p \in i..(Len(s) + 1) : ItemAt(items[a], s, p)}, i - 1)
    IN  SetMinOr({j \in i..last : /\ \E k \in 1..a : ItemAt(items[k], s, j)
                                 /\ MatchEnd(items, 1, s, j) # 0}, 0)

\* re.sub(pattern, repl, s) for a pattern that matches no empty string: the
\* text from index i on, j being the start of the next match (0: none)
RECURSIVE SubFrom(_, _, _, _)
SubAt(items, repl, s, i, j) ==
    IF j = 0 THEN Slice(s, i, Len(s))
    ELSE Slice(s, i, j - 1) \o repl \o SubFrom(items, repl, s, MatchEnd(items, 1, s, j))

SubFrom(items, repl, s, i) == SubAt(items, repl, s, i, NextMatch(items, s, i))

ReSub(items, repl, s) == IF s = "" THEN "" ELSE SubFrom(items, repl, s, 1)

\* re.split(pattern, s) for a pattern that matches no empty string
RECURSIVE SplitOnFrom(_, _, _)
SplitAt(items, s, i, j) ==
    IF j = 0 THEN <<Slice(s, i, Len(s))>>
    ELSE <<Slice(s, i, j - 1)>> \o SplitOnFrom(items, s, MatchEnd(items, 1, s, j))

SplitOnFrom(items, s, i) == SplitAt(items, s, i, NextMatch(items, s, i))

ReSplit(items, s) == IF s = "" THEN <<"">> ELSE SplitOnFrom(items, s, 1)

(***************************************************************************)
(* The text normalizer                                                     *)
(***************************************************************************)

BOILERPLATE_PATTERNS ==
    <<
      <<WsStar, Lit("See Email Titled"), WsStar, Lit("\""), NotStar("\""), Lit("\""),
        NotStar("."), OptLit("."), WsStar>>,
      <<WsStar, Lit("See Email Titled"), NotStar("."), OptLit("."), WsStar>>,
      <<WsStar, Lit("This data is rolled over from last year"), OptLit("."), WsStar>>,
      <<WsStar, Lit("This question is used in the Rankings calculation"), OptLit("."),
        WsStar>>,
      <<WsStar, Lit("RESPONSE NEEDED"), WsStar>>,
      <<WsStar, Lit("ACTION NEEDED"), WsStar>>,
      <<WsStar, Lit("DUE "), Item("digit", "", 1, 2), Lit("/"), Item("digit", "", 1, 2),
        NotStar("."), OptLit("."), WsStar>>,
      <<WsStar, Lit("for PDF of Results from Last Year"), OptLit("."), WsStar>>,
      <<WsStar, Lit("-"), WsStar, Lit("U.S. News Best Medical Schools Survey"), WsStar>>,
      <<WsStar, Lit("U.S. News Best Medical Schools Survey"), WsStar>>,
      <<WsStar, Lit("Click to write the question text"), WsStar>>,
      <<WsStar, Lit("Please answer the following"), OptLit("."), WsStar>>
    >>

\* for pattern in BOILERPLATE_PATTERNS: text = re.sub(pattern, ' ', text)
RECURSIVE SubEach(_, _, _, _)
SubEach(patterns, repl, s, k) ==
    IF k > Len(patterns) THEN s
    ELSE SubEach(patterns, repl, ReSub(patterns[k], repl, s), k + 1)

RemoveBoilerplate(s) == SubEach(BOILERPLATE_PATTERNS, " ", s, 1)

\* html.unescape on the character references &amp; &lt; &gt; &quot;, each
\* also recognised without its semicolon; one pass, its output not rescanned
ENTITIES ==
    <<[name |-> "&amp;", char |-> "&"], [name |-> "&lt;", char |-> "<"],
      [name |-> "&gt;", char |-> ">"], [name |-> "&quot;", char |-> "\""],
      [name |-> "&amp", char |-> "&"], [name |-> "&lt", char |-> "<"],
      [name |-> "&gt", char |-> ">"], [name |-> "&quot", char |-> "\""]>>

\* the entity that starts at index i of s, 0 when there is none
EntityAt(s, i) ==
    SetMinOr({k \in DOMAIN ENTITIES : Slice(s, i, i + Len(ENTITIES[k].name) - 1) = ENTITIES[k].name},
             0)

\* the text from index i on, j being the start of the next entity (0: none)
RECURSIVE UnescapeFrom(_, _)
UnescapeAt(s, i, j) ==
    IF j = 0 THEN Slice(s, i, Len(s))
    ELSE Slice(s, i, j - 1) \o ENTITIES[EntityAt(s, j)].char
         \o UnescapeFrom(s, j + Len(ENTITIES[EntityAt(s, j)].name))

UnescapeFrom(s, i) == UnescapeAt(s, i, SetMinOr({j \in i..Len(s) : EntityAt(s, j) # 0}, 0))

unescape(s) == IF s = "" THEN "" ELSE UnescapeFrom(s, 1)

TAG_PATTERN == <<Exact("<"), Item("not", ">", 1, Unbounded), Exact(">")>>

clean_html_text(text) ==
    IF text = "" THEN ""
    ELSE Strip(ReSub(<<WsPlus>>, " ",
                     RemoveBoilerplate(ReSub(TAG_PATTERN, " ", unescape(text)))))

(***************************************************************************)
(* Python dicts: the keys in insertion order and the value of each key     *)
(***************************************************************************)

EmptyDict == [keys |-> <<>>, val |-> <<>>]

Has(d, k) == \E i \in DOMAIN d.keys : d.keys[i] = k

Get(d, k) == d.val[k]

\* d[k] = v
Put(d, k, v) ==
    [keys |-> IF Has(d, k) THEN d.keys ELSE Append(d.keys, k),
     val |-> (k :> v) @@ d.val]

Elems(seq) == {seq[i] : i \in DOMAIN seq}

(***************************************************************************)
(* The label resolver                                                      *)
(***************************************************************************)

\* int() on the digits of its argument: decimal digits with single
\* underscores between them; anything else raises ValueError (ok = FALSE)
ParseDigits(body) ==
    LET n == Len(body)
        ok == /\ body # ""
              /\ \A i \in 1..n : Ch(body, i) \in AsciiDigits \cup {"_"}
              /\ Ch(body, 1) # "_" /\ Ch(body, n) # "_"
              /\ ~Contains(body, "__")
    IN  [ok |-> ok, val |-> IF ok THEN IntOf(ReSub(<<Exact("_")>>, "", body)) ELSE 0]

\* int(s): optional surrounding whitespace, an optional sign, the digits
ParseInt(s) ==
    LET t == Strip(s)
        signed == t # "" /\ Ch(t, 1) \in {"+", "-"}
    IN  [ParseDigits(IF signed THEN Slice(t, 2, Len(t)) ELSE t)
            EXCEPT !.val = IF signed /\ Ch(t, 1) = "-" THEN 0 - @ ELSE @]

\* what qsf_metadata.get(base_q, {}) yields for a question without definition
NoDefinition ==
    [internal_type |-> "unknown", text |-> "",
     choices |-> EmptyDict, choice_order |-> <<>>,
     answers |-> EmptyDict, answer_order |-> <<>>]

\* the label of csv_index among labels: that of the identifier csv_index,
\* else that of the identifier at the 1-based position n of order, else a
\* placeholder; n is int(csv_index)
LabelAt(labels, order, csv_index, label_type, n) ==
    LET idx == n.val - 1
    IN  IF Has(labels, csv_index) THEN Get(labels, csv_index)
        ELSE IF n.ok /\ 0 <= idx /\ idx < Len(order) /\ Has(labels, order[idx + 1])
             THEN Get(labels, order[idx + 1])
        ELSE (IF label_type = "choice" THEN "Row " ELSE "Column ") \o csv_index

get_label_from_qsf_ZeroBased(qsf_info, csv_index, label_type) ==
    LabelAt(IF label_type = "choice" THEN qsf_info.choices ELSE qsf_info.answers,
            IF label_type = "choice" THEN qsf_info.choice_order ELSE qsf_info.answer_order,
            csv_index, label_type, [ParseInt(csv_index) EXCEPT !.val = @ + 1])

get_label_from_qsf(qsf_info, csv_index, label_type) ==
    LabelAt(IF label_type = "choice" THEN qsf_info.choices ELSE qsf_info.answers,
            IF label_type = "choice" THEN qsf_info.choice_order ELSE qsf_info.answer_order,
            csv_index, label_type, ParseInt(csv_index))

(***************************************************************************)
(* parse_qsf: the labels of a question's choices (or answers)              *)
(***************************************************************************)

\* raw: the Choices (Answers) dict of the payload, identifier -> display
\* text; order: its ChoiceOrder (AnswerOrder) list.  The labels kept are
\* those of the ordered identifiers found in raw or, when there are none,
\* all of raw.
KeptIds(order, raw) ==
    LET listed == SelectSeq(order, LAMBDA id : Has(raw, id))
    IN  IF listed # <<>> THEN listed ELSE raw.keys

\* for id in ids[1..n]: labels[id] = clean_html_text(raw[id])
RECURSIVE CleanedLabels(_, _, _)
CleanedLabels(ids, raw, n) ==
    IF n = 0 THEN EmptyDict
    ELSE Put(CleanedLabels(ids, raw, n - 1), ids[n], clean_html_text(Get(raw, ids[n])))

qsf_labels(order, raw) == CleanedLabels(KeptIds(order, raw), raw, Len(KeptIds(order, raw)))

qsf_order(order, labels) == IF order # <<>> THEN order ELSE labels.keys

(***************************************************************************)
(* Header text: clean_question_text and extract_matrix_labels              *)
(***************************************************************************)

Dash == Exact("-")

End == Item("end", "", 1, 1)

\* re.sub(r'^\s*-\s*', '', s)
StripLeadingDash(s) ==
    LET e == MatchEnd(<<WsStar, Dash, WsStar>>, 1, s, 1)
    IN  IF s = "" \/ e = 0 THEN s ELSE Slice(s, e, Len(s))

\* None (pd.isna) gives ''
clean_question_text(text) ==
    IF pd_isna(text) THEN ""
    ELSE LET t1 == RemoveBoilerplate(text.s)
             t2 == StripLeadingDash(t1)
             t3 == ReSub(<<WsStar, Dash, WsStar, End>>, "", t2)
             t4 == ReSub(<<WsStar, Dash, WsStar, Dash, WsStar>>, " ", t3)
             t5 == ReSub(<<Item("exact", "\n", 2, Unbounded)>>, " ", t4)
             t6 == ReSub(<<Item("exact", "\t", 1, Unbounded)>>, " ", t5)
         IN  Strip(ReSub(<<WsPlus>>, " ", t6))

DATE_RANGE == <<Item("digit", "", 4, 4), WsStar, Dash, WsStar, Item("digit", "", 4, 4)>>

\* re.sub(r'(\d{4})\s*-\s*(\d{4})', r'\1__DATERANGE__\2', s)
\* the text from index i on, j being the start of the next range (0: none)
RECURSIVE ProtectDateRanges(_, _)
ProtectAt(s, i, j) ==
    LET e == MatchEnd(DATE_RANGE, 1, s, j)
    IN  IF j = 0 THEN Slice(s, i, Len(s))
        ELSE Slice(s, i, j - 1) \o Slice(s, j, j + 3) \o "__DATERANGE__"
             \o Slice(s, e - 4, e - 1) \o ProtectDateRanges(s, e)

ProtectDateRanges(s, i) ==
    IF s = "" THEN "" ELSE ProtectAt(s, i, NextMatch(DATE_RANGE, s, i))

\* ' - '.join(parts[1..n])
RECURSIVE JoinDash(_, _)
JoinDash(parts, n) ==
    IF n = 0 THEN ""
    ELSE IF n = 1 THEN parts[1]
    ELSE JoinDash(parts, n - 1) \o " - " \o parts[n]

\* the parts into which extract_matrix_labels splits the cleaned header text
\* [p.replace('__DATERANGE__', ' - ') for p in parts]
RestoreDateRanges(parts) ==
    [k \in DOMAIN parts |-> ReSub(<<Exact("__DATERANGE__")>>, " - ", parts[k])]

HeaderParts(cleaned_text) ==
    RestoreDateRanges(ReSplit(<<WsPlus, Dash, WsPlus>>, ProtectDateRanges(cleaned_text, 1)))

\* the labels read off the parts of the cleaned header text
PartLabels(cleaned_text, parts) ==
    LET n == Len(parts)
    IN  IF n >= 3
        THEN [base |-> JoinDash(parts, n - 2), row |-> parts[n - 1], col |-> parts[n]]
        ELSE IF n = 2
        THEN [base |-> parts[1], row |-> parts[2], col |-> ""]
        ELSE [base |-> cleaned_text, row |-> "", col |-> ""]

SplitLabels(cleaned_text) == PartLabels(cleaned_text, HeaderParts(cleaned_text))

\* (base_question_text, row_label, column_label); a label that is None is ""
extract_matrix_labels(text) ==
    IF pd_isna(text) THEN [base |-> "", row |-> "", col |-> ""]
    ELSE SplitLabels(clean_question_text(text))

(***************************************************************************)
(* Column identifiers                                                      *)
(***************************************************************************)

METADATA_COLUMNS ==
    {"StartDate", "EndDate", "Status", "IPAddress", "Progress",
     "Duration (in seconds)", "Finished", "RecordedDate", "ResponseId",
     "RecipientLastName", "RecipientFirstName", "RecipientEmail",
     "ExternalReference", "LocationLatitude", "LocationLongitude",
     "DistributionChannel", "UserLanguage", "Browser", "Version",
     "Operating System", "Resolution", "DeviceType", "Q_TotalDuration",
     "Q_URL", "Q_BallotBoxStuffing", "Q_RelevantIDDuplicate"}

NoMatch == [matched |-> FALSE, groups |-> 0, base |-> "", sub1 |-> "", sub2 |-> "", text |-> FALSE]

\* the index after the k-th group of Q(\d+)(?:_(\d+))?(?:_(\d+))?(_TEXT)?
\* matched at the start of col_id; a group that does not take part ends
\* where the group before it ends
RECURSIVE GroupEnd(_, _)
GroupEnd(col_id, k) ==
    IF k = 1 THEN SkipWhile(col_id, 2, AsciiDigits)
    ELSE LET at == GroupEnd(col_id, k - 1)
         IN  IF k = 4
             THEN (IF Slice(col_id, at, at + 4) = "_TEXT" THEN at + 5 ELSE at)
             ELSE IF Slice(col_id, at, at) = "_"
                     /\ SkipWhile(col_id, at + 1, AsciiDigits) > at + 1
                     /\ (k = 3 => at # GroupEnd(col_id, 1))
             THEN SkipWhile(col_id, at + 1, AsciiDigits) ELSE at

\* re.match(r'Q(\d+)(?:_(\d+))?(?:_(\d+))?(_TEXT)?', col_id), with a closing $
\* when anchored; a group that did not take part is ""
MatchColumnId(col_id, anchored) ==
    IF ~StartsWith(col_id, "Q") \/ GroupEnd(col_id, 1) = 2 THEN NoMatch
    ELSE IF anchored /\ GroupEnd(col_id, 4) # Len(col_id) + 1 THEN NoMatch
    ELSE [matched |-> TRUE, groups |-> 4,
          base |-> Slice(col_id, 2, GroupEnd(col_id, 1) - 1),
          sub1 |-> Slice(col_id, GroupEnd(col_id, 1) + 1, GroupEnd(col_id, 2) - 1),
          sub2 |-> Slice(col_id, GroupEnd(col_id, 2) + 1, GroupEnd(col_id, 3) - 1),
          text |-> GroupEnd(col_id, 4) # GroupEnd(col_id, 3)]

\* re.match(r'Q(\d+)(?:_(.+))?$', col_id)
MatchColumnIdOther(col_id) ==
    LET d1 == SkipWhile(col_id, 2, AsciiDigits)
        n == Len(col_id)
    IN  IF ~StartsWith(col_id, "Q") \/ d1 = 2 THEN NoMatch
        ELSE IF d1 = n + 1
        THEN [matched |-> TRUE, groups |-> 2, base |-> Slice(col_id, 2, n),
              sub1 |-> "", sub2 |-> "", text |-> FALSE]
        ELSE IF Ch(col_id, d1) = "_" /\ d1 < n
        THEN [matched |-> TRUE, groups |-> 2, base |-> Slice(col_id, 2, d1 - 1),
              sub1 |-> Slice(col_id, d1 + 1, n), sub2 |-> "", text |-> FALSE]
        ELSE NoMatch

(***************************************************************************)
(* Question structures                                                     *)
(***************************************************************************)

\* a row {'label', 'cells'} has has_cells and no id; a row {'id', 'label'}
\* has an id and no cells
CellRow(label) == [label |-> label, id |-> "", has_cells |-> TRUE, cells |-> EmptyDict]

ItemRow(col_id, label) ==
    [label |-> label, id |-> col_id, has_cells |-> FALSE, cells |-> EmptyDict]

NewQuestion(base_q, text, internal_type) ==
    [id |-> base_q, text |-> text, type |-> "single", internal_type |-> internal_type,
     columns |-> <<>>, rows |-> EmptyDict, col_headers |-> EmptyDict, col_order |-> <<>>]

KeyError == "KeyError"

\* if col_id not in q['columns']: q['columns'].append(col_id)
TrackColumn(q, col_id) ==
    [q EXCEPT !.columns = IF col_id \in Elems(@) THEN @ ELSE Append(@, col_id)]

\* if sub1 not in q['rows']: q['rows'][sub1] = {'id': col_id, 'label': label}
BindRow(q, sub1, col_id, label) ==
    IF Has(q.rows, sub1) THEN q
    ELSE [q EXCEPT !.rows = Put(@, sub1, ItemRow(col_id, label))]

BindCell_ShapeGrouped(q, sub1, sub2, col_id, row_label, col_label, relabel) ==
    [q |-> BindRow([q EXCEPT !.type = "grouped"], sub1, col_id, row_label), raised |-> ""]

BindCell_AlwaysAppends(q, sub1, sub2, col_id, row_label, col_label, relabel) ==
    LET rows1 == IF ~Has(q.rows, sub1) THEN Put(q.rows, sub1, CellRow(row_label))
                 ELSE IF relabel /\ row_label # "Row " \o sub1
                 THEN Put(q.rows, sub1, [Get(q.rows, sub1) EXCEPT !.label = row_label])
                 ELSE q.rows
        row == Get(rows1, sub1)
        cell == [id |-> col_id, col_label |-> col_label]
        rows2 == Put(rows1, sub1, [row EXCEPT !.cells = Put(@, sub2, cell)])
        known == Has(q.col_headers, sub2)
    IN  IF ~row.has_cells
        THEN [q |-> [q EXCEPT !.rows = rows1], raised |-> KeyError]
        ELSE [q |-> [q EXCEPT !.rows = rows2,
                              !.col_headers =
                                  IF ~known \/ (relabel /\ col_label # "Column " \o sub2)
                                  THEN Put(@, sub2, col_label) ELSE @,
                              !.col_order = Append(@, sub2)],
              raised |-> ""]

\* the binding of a matrix cell: the row sub1 is created when new (in
\* unassisted mode, relabel, an existing row takes a label that is not the
\* placeholder); the cell is stored under the row's 'cells', which raises
\* KeyError for a row created without cells; the column key is recorded
\* when new (and, in unassisted mode, relabelled)
BindCell(q, sub1, sub2, col_id, row_label, col_label, relabel) ==
    LET rows1 == IF ~Has(q.rows, sub1) THEN Put(q.rows, sub1, CellRow(row_label))
                 ELSE IF relabel /\ row_label # "Row " \o sub1
                 THEN Put(q.rows, sub1, [Get(q.rows, sub1) EXCEPT !.label = row_label])
                 ELSE q.rows
        row == Get(rows1, sub1)
        cell == [id |-> col_id, col_label |-> col_label]
        rows2 == Put(rows1, sub1, [row EXCEPT !.cells = Put(@, sub2, cell)])
        known == Has(q.col_headers, sub2)
    IN  IF ~row.has_cells
        THEN [q |-> [q EXCEPT !.rows = rows1], raised |-> KeyError]
        ELSE [q |-> [q EXCEPT !.rows = rows2,
                              !.col_headers =
                                  IF ~known \/ (relabel /\ col_label # "Column " \o sub2)
                                  THEN Put(@, sub2, col_label) ELSE @,
                              !.col_order = IF known THEN @ ELSE Append(@, sub2)],
              raised |-> ""]

Skipped(questions) == [questions |-> questions, raised |-> ""]

\* whether the scan skips the column before parsing its identifier
NotAQuestionColumn(col_id) ==
    \/ col_id \in METADATA_COLUMNS
    \/ is_timing_column(col_id)
    \/ ~StartsWith(col_id, "Q")

(***************************************************************************)
(* extract_questions_with_qsf: the body of the loop, for one column        *)
(***************************************************************************)

\* qsf_metadata.get(base_q, {}), read with the defaults of its fields
QsfInfo(qsf_metadata, base_q) ==
    IF base_q \in DOMAIN qsf_metadata THEN qsf_metadata[base_q] ELSE NoDefinition

\* questions[base_q], created with the text and internal type given when it
\* is new, with the column tracked
OpenQuestion(questions, base_q, text, internal_type, col_id) ==
    TrackColumn(IF Has(questions, base_q) THEN Get(questions, base_q)
                ELSE NewQuestion(base_q, text, internal_type),
                col_id)

\* the questions dict after the body of the loop has bound the column to
\* questions[base_q], and the exception the binding raised
Stored(questions, base_q, bound) ==
    [questions |-> Put(questions, base_q, bound.q), raised |-> bound.raised]

\* the structure of a question whose internal type is not a matrix, form or
\* choice type, inferred from the column pattern; row_qsf and col_qsf are the
\* labels of get_label_from_qsf, csv the labels of extract_matrix_labels
InferFromPattern(q, sub1, sub2, col_id, row_qsf, col_qsf, csv) ==
    IF sub1 # "" /\ sub2 # ""
    THEN LET generic == row_qsf = "Row " \o sub1 \/ col_qsf = "Column " \o sub2
             row_label == IF generic /\ row_qsf = "Row " \o sub1 /\ csv.row # ""
                          THEN csv.row ELSE row_qsf
             col_label == IF generic /\ col_qsf = "Column " \o sub2 /\ csv.col # ""
                          THEN csv.col ELSE col_qsf
         IN  BindCell([q EXCEPT !.type = "matrix"], sub1, sub2, col_id,
                      row_label, col_label, FALSE)
    ELSE IF sub1 # ""
    THEN [q |-> BindRow([q EXCEPT !.type = "grouped"], sub1, col_id,
                        IF row_qsf = "Row " \o sub1 /\ csv.row # ""
                        THEN csv.row ELSE row_qsf),
          raised |-> ""]
    ELSE [q |-> q, raised |-> ""]

\* the branches on internal_type; row_qsf: get_label_from_qsf(qsf_info,
\* sub1, 'choice'), col_qsf: get_label_from_qsf(qsf_info, sub2, 'answer'),
\* csv: extract_matrix_labels(col_text), each read only where the code
\* calls it
BindWithQsf(q, internal_type, sub1, sub2, col_id, row_qsf, col_qsf, csv) ==
    IF internal_type \in {"matrix_text", "matrix_likert", "matrix_multi"}
    THEN IF sub1 # "" /\ sub2 # ""
         THEN BindCell([q EXCEPT !.type = "matrix"], sub1, sub2, col_id,
                       row_qsf, col_qsf, FALSE)
         ELSE IF sub1 # ""
         THEN [q |-> BindRow([q EXCEPT !.type = "matrix"], sub1, col_id, row_qsf),
               raised |-> ""]
         ELSE [q |-> [q EXCEPT !.type = "matrix"], raised |-> ""]
    ELSE IF internal_type = "form"
    THEN [q |-> IF sub1 # ""
                THEN BindRow([q EXCEPT !.type = "form"], sub1, col_id, row_qsf)
                ELSE [q EXCEPT !.type = "form"],
          raised |-> ""]
    ELSE IF internal_type \in {"single_choice", "multi_choice"}
    THEN [q |-> IF sub1 # ""
                THEN BindRow([q EXCEPT !.type = "choice"], sub1, col_id, row_qsf)
                ELSE q,
          raised |-> ""]
    ELSE InferFromPattern(q, sub1, sub2, col_id, row_qsf, col_qsf, csv)

\* the identifier of a column as the loop reads it: whether the column is
\* a question's, its base question and sub-indices ("" for None)
ColumnParts(col_id, match) ==
    LET other_text == match.sub1 # "" /\ ~IsDigit(match.sub1) /\ match.sub1 = "TEXT"
    IN  [matched |-> ~NotAQuestionColumn(col_id) /\ match.matched,
         base_q |-> "Q" \o match.base,
         sub1 |-> IF other_text THEN "" ELSE match.sub1,
         sub2 |-> IF match.groups >= 4 THEN match.sub2 ELSE "",
         is_text_field |-> (match.groups >= 4 /\ match.text) \/ other_text]

ParseWithQsf(col_id) ==
    ColumnParts(col_id, IF MatchColumnId(col_id, TRUE).matched
                        THEN MatchColumnId(col_id, TRUE) ELSE MatchColumnIdOther(col_id))

\* the columns that the loop passes over
Skips(parsed) == ~parsed.matched \/ (parsed.is_text_field /\ parsed.sub1 # "")

\* the body of the loop for a column that is not passed over
ScanQuestionWithQsf(questions, col, parsed, qsf_info) ==
    Stored(questions, parsed.base_q,
           BindWithQsf(OpenQuestion(questions, parsed.base_q,
                                    IF qsf_info.text # "" THEN qsf_info.text
                                    ELSE clean_question_text(col.text),
                                    qsf_info.internal_type, col.id),
                       qsf_info.internal_type, parsed.sub1, parsed.sub2, col.id,
                       get_label_from_qsf(qsf_info, parsed.sub1, "choice"),
                       get_label_from_qsf(qsf_info, parsed.sub2, "answer"),
                       extract_matrix_labels(col.text)))

ScanParsedWithQsf(questions, qsf_metadata, col, parsed) ==
    IF Skips(parsed) THEN Skipped(questions)
    ELSE ScanQuestionWithQsf(questions, col, parsed, QsfInfo(qsf_metadata, parsed.base_q))

ScanWithQsf(questions, qsf_metadata, col) ==
    ScanParsedWithQsf(questions, qsf_metadata, col, ParseWithQsf(col.id))

(***************************************************************************)
(* extract_questions_from_csv: the body of the loop, for one column        *)
(***************************************************************************)

ParseFromCsv(col_id) ==
    LET match == MatchColumnId(col_id, FALSE)
    IN  [matched |-> ~NotAQuestionColumn(col_id) /\ match.matched,
         base_q |-> "Q" \o match.base,
         sub1 |-> match.sub1,
         sub2 |-> match.sub2,
         is_text_field |-> match.text]

\* the structure inferred from the sub-indices; labels: the labels of
\* extract_matrix_labels
BindFromCsv(q, sub1, sub2, col_id, labels) ==
    IF sub1 # "" /\ sub2 # ""
    THEN BindCell([q EXCEPT !.type = "matrix"], sub1, sub2, col_id,
                  IF labels.row # "" THEN labels.row ELSE "Row " \o sub1,
                  IF labels.col # "" THEN labels.col ELSE "Column " \o sub2,
                  TRUE)
    ELSE IF sub1 # ""
    THEN [q |-> BindRow([q EXCEPT !.type = "grouped"], sub1, col_id,
                        IF labels.row # "" THEN labels.row ELSE "Item " \o sub1),
          raised |-> ""]
    ELSE [q |-> q, raised |-> ""]

LongestText_KeepsFirst(text, base_text) == IF text = "" THEN base_text ELSE text

\* if len(base_text) > len(q['text']): q['text'] = base_text
LongestText(text, base_text) == IF Len(base_text) > Len(text) THEN base_text ELSE text

\* the body of the loop for a column that is not passed over: the question
\* keeps the longest base text seen
ScanQuestionFromCsv(questions, col, parsed, labels) ==
    Stored(questions, parsed.base_q,
           BindFromCsv([OpenQuestion(questions, parsed.base_q, "", "unknown", col.id)
                           EXCEPT !.text = LongestText(@, labels.base)],
                       parsed.sub1, parsed.sub2, col.id, labels))

ScanFromCsv(questions, col) ==
    IF Skips(ParseFromCsv(col.id)) THEN Skipped(questions)
    ELSE ScanQuestionFromCsv(questions, col, ParseFromCsv(col.id),
                             extract_matrix_labels(col.text))

(***************************************************************************)
(* Row-key sort: sorted(rows_data.keys(), key=sort_row_key)                *)
(***************************************************************************)

\* The characters of the texts in code point order.  The stand-ins of the
\* superscript two (U+00B2) and of the arrow (U+2192) come last, as those
\* characters do.
CodePoints ==
    "\t\n\r !\"#$%&'()*+,-./0123456789:;<=>?@ABCDEFGHIJKLMNOPQRSTUVWXYZ[\\]_"
    \o "abcdefghijklmnopqrstuvwxyz{|}" \o SUP2 \o ARROW

Code(c) == CHOOSE i \in 1..Len(CodePoints) : Ch(CodePoints, i) = c

\* a < b on str: lexicographic by code point
StrLess(a, b) ==
    LET n == IF Len(a) < Len(b) THEN Len(a) ELSE Len(b)
        diff == SetMinOr({i \in 1..n : Ch(a, i) # Ch(b, i)}, 0)
    IN  IF diff = 0 THEN Len(a) < Len(b)
        ELSE Code(Ch(a, diff)) < Code(Ch(b, diff))

\* int(key_str) raises ValueError for a str.isdigit() key that is not decimal
sort_row_key_raises(key) == IsDigit(key) /\ IntRaises(key)

sort_row_key(key) ==
    IF IsDigit(key) THEN <<0, IntOf(key), "">> ELSE <<1, 0, Lower(key)>>

\* x < y on the tuples of sort_row_key
RowKeyLess(x, y) ==
    \/ x[1] < y[1]
    \/ x[1] = y[1] /\ x[2] < y[2]
    \/ x[1] = y[1] /\ x[2] = y[2] /\ StrLess(x[3], y[3])

\* sorted() is stable: a key goes after the keys that are not greater
InsertRowKey(sorted, key) ==
    LET p == Cardinality({i \in DOMAIN sorted :
                             ~RowKeyLess(sort_row_key(key), sort_row_key(sorted[i]))})
    IN  SubSeq(sorted, 1, p) \o <<key>> \o SubSeq(sorted, p + 1, Len(sorted))

RECURSIVE SortRowKeys(_, _)
SortRowKeys(keys, n) ==
    IF n = 0 THEN <<>> ELSE InsertRowKey(SortRowKeys(keys, n - 1), keys[n])

\* sorted(keys, key=sort_row_key): the list, or the exception of a key
SortedRows(keys) ==
    IF \E i \in DOMAIN keys : sort_row_key_raises(keys[i])
    THEN [raised |-> ValueError, keys |-> <<>>]
    ELSE [raised |-> "", keys |-> SortRowKeys(keys, Len(keys))]

(***************************************************************************)
(* The analysis of a question's values: numeric data, unique data          *)
(***************************************************************************)

SHORT_VALUE_MAX_LENGTH == 30

\* s.replace(c, '') for every character c of chars
RECURSIVE RemoveChars(_, _)
RemoveChars(s, chars) ==
    IF s = "" THEN ""
    ELSE (IF Ch(s, 1) \in chars THEN "" ELSE Ch(s, 1)) \o RemoveChars(SubSeq(s, 2, Len(s)), chars)

\* the end of a decimal number with optional fraction and exponent that
\* starts at index i of s, 0 when none starts there
FloatEnd(s, i) ==
    LET a == SkipWhile(s, i, AsciiDigits)
        dot == a <= Len(s) /\ Ch(s, a) = "."
        b == IF dot THEN SkipWhile(s, a + 1, AsciiDigits) ELSE a
        exp == b <= Len(s) /\ Ch(s, b) \in {"e", "E"}
        c == IF b + 1 <= Len(s) /\ Ch(s, b + 1) \in {"+", "-"} THEN b + 2 ELSE b + 1
        d == SkipWhile(s, c, AsciiDigits)
    IN  IF a = i /\ ~(dot /\ b > a + 1) THEN 0
        ELSE IF ~exp THEN b
        ELSE IF d = c THEN 0
        ELSE d

\* float(s) does not raise ValueError (the texts hold no underscore)
IsFloat(s) ==
    LET t == Strip(s)
        start == IF t # "" /\ Ch(t, 1) \in {"+", "-"} THEN 2 ELSE 1
    IN  /\ t # ""
        /\ \/ FloatEnd(t, start) = Len(t) + 1
           \/ Lower(SubSeq(t, start, Len(t))) \in {"inf", "infinity", "nan"}

\* is_numeric_value on the text of a value
is_numeric_value(val) ==
    /\ Strip(val) # ""
    /\ IsFloat(RemoveChars(Strip(val), {",", "$", "%"}))

\* [v for v in values if safe_str(v)], each as safe_str gives it
NonEmpty(values) ==
    LET kept == SelectSeq(values, LAMBDA v : Strip(v) # "")
    IN  [i \in DOMAIN kept |-> Strip(kept[i])]

\* sum(1 for v in values if test), for the values at the positions in hits
Count(hits) == Cardinality(hits)

\* values_are_numeric_data on the non-empty values: numeric_ratio >= 0.7, or
\* more than 5 unique values and numeric_ratio >= 0.5
NumericData(non_empty) ==
    LET numeric_count == Count({i \in DOMAIN non_empty : is_numeric_value(non_empty[i])})
    IN  \/ 10 * numeric_count >= 7 * Len(non_empty)
        \/ Cardinality(Elems(non_empty)) > 5 /\ 2 * numeric_count >= Len(non_empty)

values_are_numeric_data(values) ==
    IF NonEmpty(values) = <<>> THEN FALSE ELSE NumericData(NonEmpty(values))

\* re.match(r'^\d{1,2}[/\-]\d{1,2}[/\-]\d{2,4}$', val)
IsDateShape(val) ==
    \E a \in 1..2, b \in 1..2, c \in 2..4 :
        /\ Len(val) = a + b + c + 2
        /\ \A i \in (1..a) \cup ((a + 2)..(a + b + 1)) \cup ((a + b + 3)..Len(val)) :
               Ch(val, i) \in AsciiDigits
        /\ Ch(val, a + 1) \in {"/", "-"}
        /\ Ch(val, a + b + 2) \in {"/", "-"}

\* len(val.split())
WordCount(val) ==
    Cardinality({i \in 1..Len(val) :
                    /\ Ch(val, i) \notin Whitespace
                    /\ (i = 1 \/ Ch(val, i - 1) \in Whitespace)})

\* the shapes values_are_unique_data counts: email, date, several words
IsDataPattern(val) ==
    \/ Contains(val, "@") /\ Contains(val, ".")
    \/ IsDateShape(val)
    \/ WordCount(val) >= 2 /\ Len(val) > 10

\* values_are_unique_data on the non-empty values: unique_ratio above
\* MAX_CATEGORICAL_UNIQUE_RATIO (0.5), or more than 5 unique values of more
\* than 3 lengths, or data patterns in at least 30% of the values
UniqueData(non_empty) ==
    LET unique_values == Elems(non_empty)
        data_pattern_count == Count({i \in DOMAIN non_empty : IsDataPattern(non_empty[i])})
    IN  \/ 2 * Cardinality(unique_values) > Len(non_empty)
        \/ /\ Cardinality(unique_values) > 5
           /\ Cardinality({Len(v) : v \in unique_values}) > 3
        \/ data_pattern_count > 0 /\ 10 * data_pattern_count >= 3 * Len(non_empty)

values_are_unique_data(values) ==
    IF NonEmpty(values) = <<>> THEN FALSE ELSE UniqueData(NonEmpty(values))

(***************************************************************************)
(* The classifier's inputs and its call                                    *)
(***************************************************************************)

MaxParts == 2

ValuePieces ==
    {"1", "1,", SUP2, "150", ",", "|", ";", ":", " ", "abc", "abc,", "abc|",
     "abc;", "x:1", "y:1", "(1", ")", "{", "}", " > ", "www.", ".pdf"}

RECURSIVE Concats(_, _)
Concats(pieces, n) ==
    IF n = 0 THEN {""}
    ELSE LET shorter == Concats(pieces, n - 1)
         IN  shorter \cup {a \o p : a \in shorter, p \in pieces}

SampleValues ==
    {"x:1,y:2", "X: 1 Y: 2", "(1,2)", "1.5 , 2", "1.,2", "http://a.b/c.PDF",
     "https://abc", "ftp://abc", "[1]", "1,2,3", "123,456,789", "1, 2, 3",
     "1,2,3,4", "^,^,1", "1234,5", "a " \o ARROW \o " b", "a >> b", "5", "20", "21",
     "100", "101", "300", "301", "0", "007", "12345", "abc, abcd", "ab,abc,abc",
     "99", "200", "299",
     "report.docx", "\t1,2\n"}

RECURSIVE Times(_, _)
Times(unit, n) ==
    IF n = 0 THEN ""
    ELSE LET half == Times(unit, n \div 2)
         IN  half \o half \o (IF n % 2 = 1 THEN unit ELSE "")

\* unit repeated and cut to len characters
Repeat(unit, len) == SubSeq(Times(unit, len), 1, len)

LongUnits == {"a", "1", "1,", "abc,", "abc|", "abc;", "12,", "a b "}

\* values of exactly LONG_TEXT_THRESHOLD - 1 to LONG_TEXT_THRESHOLD + 2 characters
LongValues ==
    {Repeat(u, LONG_TEXT_THRESHOLD + d) : u \in LongUnits, d \in {-1, 0, 1, 2}}

Values ==
    {NaN} \cup {Str(s) : s \in Concats(ValuePieces, MaxParts) \cup SampleValues \cup LongValues}

QuestionTexts == {"", "Pick one", "How Many?"}

ColumnIds == {"Q1", "Q1_Page Submit"}

ClassifierIdle ==
    /\ value = NaN
    /\ question_text = ""
    /\ column_id = ""
    /\ value_type = "idle"

NormalizerIdle ==
    /\ html_text = ""
    /\ cleaned = ""
    /\ recleaned = ""
    /\ clean_calls = -1

LabelIdle ==
    /\ lbl_info = NoDefinition
    /\ lbl_index = ""
    /\ lbl_type = ""
    /\ lbl_label = ""
    /\ label_calls = -1

ResolverIdle ==
    /\ header = <<>>
    /\ definitions = <<>>
    /\ pos_qsf = 0
    /\ questions_qsf = EmptyDict
    /\ raised_qsf = ""
    /\ pos_csv = 0
    /\ questions_csv = EmptyDict
    /\ raised_csv = ""

SorterIdle ==
    /\ row_keys = <<>>
    /\ sorted_rows = <<>>
    /\ sort_raised = ""
    /\ sort_calls = -1

ParserIdle ==
    /\ qsf_elements = <<>>
    /\ qsf_pos = -1
    /\ qsf_parsed = EmptyDict

RunIdle ==
    /\ run_input = <<>>
    /\ run_phase = "idle"
    /\ run_raised = ""
    /\ failed_phase = ""
    /\ has_qsf = FALSE
    /\ phases_done = {}
    /\ output_file = ""
    /\ output_writes = -1
    /\ run_outcome = ""
    /\ run_reports = -1

RenderIdle ==
    /\ rpt_survey = <<>>
    /\ rpt_respondents = <<>>
    /\ rpt_questions = EmptyDict
    /\ rpt_phase = "idle"
    /\ rpt_summary = <<>>
    /\ rpt_cards = <<>>
    /\ rpt_raised = ""

RespondIdle ==
    /\ csv_lines = <<>>
    /\ df = <<>>
    /\ resp_phase = "idle"
    /\ resp_list = <<>>
    /\ resp_returned = -1

ReportIdle == SorterIdle /\ ParserIdle /\ RunIdle /\ RenderIdle /\ RespondIdle

ClassifyInit ==
    /\ value \in Values
    /\ question_text \in QuestionTexts
    /\ column_id \in ColumnIds
    /\ value_type = "pending"
    /\ NormalizerIdle
    /\ LabelIdle
    /\ ResolverIdle
    /\ ReportIdle

\* format_value: value_type = detect_value_type(value, question_text, column_id)
Classify ==
    /\ value_type = "pending"
    /\ value_type' = detect_value_type(value, question_text, column_id)
    /\ UNCHANGED <<value, question_text, column_id, normalizer_vars, label_vars,
                   resolver_vars, report_vars>>

ClassifyNext == Classify

SpecClassify == ClassifyInit /\ [][ClassifyNext]_vars

(***************************************************************************)
(* The normalizer's inputs and its calls                                   *)
(***************************************************************************)

MaxTextParts == 3

TextPieces ==
    {"Rate", " ", "RESPONSE", " Needed", " ACTION NEEDED", "&amp;", "lt;", "b",
     "<", ">", "&gt;", "Due 1/2", ".", "See Email Titled", "\""}

SampleTexts ==
    {"&amp;lt;b&amp;gt;", "&amp;lt;b&amp;gt;Rate&amp;lt;/b&amp;gt;",
     "RESPONSE ACTION NEEDED NEEDED", "<p>Rate  the <b>course</b></p>",
     "Rate this. This data is rolled over from last year. \n",
     "See Email Titled \"Fall\" for details. Rate",
     "Rate - U.S. News Best Medical Schools Survey", "a &amp;amp; b", "a < b > c",
     "Please answer the following. Rate &quot;x&quot;", "due 12/31/2024 at noon. Rate"}

Texts == Concats(TextPieces, MaxTextParts) \cup SampleTexts

CleanInit ==
    /\ html_text \in Texts
    /\ cleaned = ""
    /\ recleaned = ""
    /\ clean_calls = 0
    /\ ClassifierIdle
    /\ LabelIdle
    /\ ResolverIdle
    /\ ReportIdle

\* parse_qsf: question_text = clean_html_text(question_text)
CleanOnce ==
    /\ clean_calls = 0
    /\ cleaned' = clean_html_text(html_text)
    /\ clean_calls' = 1
    /\ UNCHANGED <<html_text, recleaned, classifier_vars, label_vars, resolver_vars, report_vars>>

\* the normalizer applied to text that it has already normalized
CleanAgain ==
    /\ clean_calls = 1
    /\ recleaned' = clean_html_text(cleaned)
    /\ clean_calls' = 2
    /\ UNCHANGED <<html_text, cleaned, classifier_vars, label_vars, resolver_vars, report_vars>>

CleanNext == CleanOnce \/ CleanAgain

SpecClean == CleanInit /\ [][CleanNext]_vars

(***************************************************************************)
(* The label resolver's inputs and its call                                *)
(***************************************************************************)

MaxOrder == 2

LabelIds == <<"1", "2", "35">>

\* the ChoiceOrder (AnswerOrder) lists of a payload
Orders == UNION {[1..n -> Elems(LabelIds)] : n \in 0..MaxOrder}

\* the Choices (Answers) dicts of a payload
RawLabels(prefix) ==
    {[keys |-> SelectSeq(LabelIds, LAMBDA k : k \in S),
      val |-> [k \in S |-> prefix \o k]] : S \in SUBSET Elems(LabelIds)}

\* the definitions that parse_qsf builds from them
\* the entry parse_qsf stores for a question
Entry(internal_type, text, choice_order, choices, answer_order, answers) ==
    [internal_type |-> internal_type, text |-> text,
     choices |-> choices, choice_order |-> qsf_order(choice_order, choices),
     answers |-> answers, answer_order |-> qsf_order(answer_order, answers)]

Definition(internal_type, text, choice_order, raw_choices, answer_order, raw_answers) ==
    Entry(internal_type, text, choice_order, qsf_labels(choice_order, raw_choices),
          answer_order, qsf_labels(answer_order, raw_answers))

LabelDefinitions ==
    {Definition("matrix_likert", "Rate", order, raw, order, raw_answers) :
        order \in Orders,
        raw \in RawLabels("<b>Item</b>  "),
        raw_answers \in {[keys |-> <<"1", "2">>,
                          val |-> [k \in {"1", "2"} |-> "Scale " \o k]]}}
    \cup
    {Definition("matrix_likert", "Rate", <<>>, EmptyDict, order, raw) :
        order \in Orders, raw \in RawLabels("Scale ")}

Positions == {"1", "2", "3", "0", "35", "x", "-1", "01", " 2", "1_0", "", SUP2}

LabelInit ==
    /\ lbl_info \in LabelDefinitions
    /\ lbl_index \in Positions
    /\ lbl_type \in {"choice", "answer"}
    /\ lbl_label = ""
    /\ label_calls = 0
    /\ ClassifierIdle
    /\ NormalizerIdle
    /\ ResolverIdle
    /\ ReportIdle

\* row_label = get_label_from_qsf(qsf_info, sub1, 'choice') and the like
ResolveLabel ==
    /\ label_calls = 0
    /\ lbl_label' = get_label_from_qsf(lbl_info, lbl_index, lbl_type)
    /\ label_calls' = 1
    /\ UNCHANGED <<lbl_info, lbl_index, lbl_type, classifier_vars, normalizer_vars,
                   resolver_vars, report_vars>>

LabelNext == ResolveLabel

SpecLabel == LabelInit /\ [][LabelNext]_vars

(***************************************************************************)
(* The structure resolver's inputs and its scans                           *)
(***************************************************************************)

MaxCols == 3

\* the columns a header is made of
HeaderColumns ==
    << [id |-> "Q1", text |-> Str("Rate - Good - Often")],
       [id |-> "Q1_1", text |-> Str("Rate - Good")],
       [id |-> "Q1_2", text |-> NaN],
       [id |-> "Q1_1_1", text |-> Str("Rate it - Good - Often")],
       [id |-> "Q1_1_2", text |-> Str("Fair")],
       [id |-> "Q1_2_1", text |-> Str("Fee 2020 - 2021 - Fair - Often")],
       [id |-> "Q1_1_TEXT", text |-> Str("Rate - Good - Text")],
       [id |-> "Q2_1", text |-> Str("Pick - RESPONSE NEEDED - A")],
       [id |-> "Q1_x", text |-> Str("Rate - X")],
       [id |-> "StartDate", text |-> Str("Start Date")],
       [id |-> "Q1_First Click", text |-> Str("Timing - First Click")] >>

\* a CSV header: pandas keeps the column identifiers distinct
Headers ==
    {[k \in DOMAIN picks |-> HeaderColumns[picks[k]]] :
        picks \in {f \in UNION {[1..n -> DOMAIN HeaderColumns] : n \in 0..MaxCols} :
                      \A a, b \in DOMAIN f : a # b => f[a] # f[b]}}

RatingChoices == [keys |-> <<"35", "36">>, val |-> ("35" :> "Good") @@ ("36" :> "Fair")]

RatingAnswers == [keys |-> <<"1", "2">>, val |-> ("1" :> "Often") @@ ("2" :> "Never")]

\* the tables parse_qsf yields: none, or a definition of Q1
DefinitionTables ==
    {<<>>}
    \cup
    {("Q1" :> Definition(t, "Rate the course", <<"35", "36">>, RatingChoices,
                         <<"1", "2">>, RatingAnswers)) :
        t \in {"matrix_likert", "form", "multi_choice"}}
    \cup
    {("Q1" :> Definition("single_text", "", <<"35", "36">>, RatingChoices,
                         <<>>, EmptyDict))}

ResolveInit ==
    /\ header \in Headers
    /\ definitions \in DefinitionTables
    /\ pos_qsf = 1
    /\ questions_qsf = EmptyDict
    /\ raised_qsf = ""
    /\ pos_csv = 1
    /\ questions_csv = EmptyDict
    /\ raised_csv = ""
    /\ ClassifierIdle
    /\ NormalizerIdle
    /\ LabelIdle
    /\ ReportIdle

QsfScanOver == pos_qsf > Len(header) \/ raised_qsf # ""

\* extract_questions_with_qsf: one turn of the loop over the columns
ScanColumnWithQsf ==
    /\ ~QsfScanOver
    /\ \E scanned \in {ScanWithQsf(questions_qsf, definitions, header[pos_qsf])} :
           /\ questions_qsf' = scanned.questions
           /\ raised_qsf' = scanned.raised
           /\ pos_qsf' = IF scanned.raised = "" THEN pos_qsf + 1 ELSE pos_qsf
    /\ UNCHANGED <<header, definitions, pos_csv, questions_csv, raised_csv,
                   classifier_vars, normalizer_vars, label_vars, report_vars>>

\* extract_questions_from_csv on the same header: one turn of its loop
ScanColumnFromCsv ==
    /\ QsfScanOver
    /\ pos_csv <= Len(header) /\ raised_csv = ""
    /\ \E scanned \in {ScanFromCsv(questions_csv, header[pos_csv])} :
           /\ questions_csv' = scanned.questions
           /\ raised_csv' = scanned.raised
           /\ pos_csv' = IF scanned.raised = "" THEN pos_csv + 1 ELSE pos_csv
    /\ UNCHANGED <<header, definitions, pos_qsf, questions_qsf, raised_qsf,
                   classifier_vars, normalizer_vars, label_vars, report_vars>>

ResolveNext == ScanColumnWithQsf \/ ScanColumnFromCsv

SpecResolve == ResolveInit /\ [][ResolveNext]_vars

(***************************************************************************)
(* The row-key sort's inputs and its call                                  *)
(***************************************************************************)

MaxKeys == 3

RowKeys == {"1", "2", "10", "01", "A", "a", "b", "B", "x1", SUP2}

\* the sequences of at most max distinct elements of S
DistinctSeqs(S, max) ==
    {f \in UNION {[1..n -> S] : n \in 0..max} : \A a, b \in DOMAIN f : a # b => f[a] # f[b]}

SampleKeyLists == {<<"10", "2", "b", "A", "1">>, <<"b", "10", "a", "01", "1", "B">>}

\* the keys of a dict are distinct
KeyLists == DistinctSeqs(RowKeys, MaxKeys) \cup SampleKeyLists

EarlierIdle == ClassifierIdle /\ NormalizerIdle /\ LabelIdle /\ ResolverIdle

earlier_vars == <<classifier_vars, normalizer_vars, label_vars, resolver_vars>>

SortInit ==
    /\ row_keys \in KeyLists
    /\ sorted_rows = <<>>
    /\ sort_raised = ""
    /\ sort_calls = 0
    /\ EarlierIdle
    /\ ParserIdle
    /\ RunIdle
    /\ RenderIdle
    /\ RespondIdle

\* sorted_rows = sorted(rows_data.keys(), key=sort_row_key)
SortRows ==
    /\ sort_calls = 0
    /\ sorted_rows' = SortedRows(row_keys).keys
    /\ sort_raised' = SortedRows(row_keys).raised
    /\ sort_calls' = 1
    /\ UNCHANGED <<row_keys, earlier_vars, parser_vars, run_vars, render_vars, respond_vars>>

SortNext == SortRows

SpecSort == SortInit /\ [][SortNext]_vars

(***************************************************************************)
(* parse_qsf: the elements of a survey definition                          *)
(***************************************************************************)

None == NaN

\* d.get(key, default) on a JSON object, modelled as a function of its keys
dict_get(d, key, default) == IF key \in DOMAIN d THEN d[key] ELSE default

QSF_TYPE_MAP ==
    (<<Str("Matrix"), Str("TE"), Str("Long")>> :> "matrix_text")
    @@ (<<Str("Matrix"), Str("TE"), Str("Short")>> :> "matrix_text")
    @@ (<<Str("Matrix"), Str("TE"), None>> :> "matrix_text")
    @@ (<<Str("Matrix"), Str("Likert"), Str("SingleAnswer")>> :> "matrix_likert")
    @@ (<<Str("Matrix"), Str("Likert"), Str("MultipleAnswer")>> :> "matrix_multi")
    @@ (<<Str("Matrix"), Str("Likert"), None>> :> "matrix_likert")
    @@ (<<Str("Matrix"), Str("Profile"), None>> :> "matrix_likert")
    @@ (<<Str("Matrix"), Str("Bipolar"), None>> :> "matrix_likert")
    @@ (<<Str("Matrix"), Str("MaxDiff"), None>> :> "matrix_likert")
    @@ (<<Str("TE"), Str("FORM"), None>> :> "form")
    @@ (<<Str("TE"), Str("SL"), None>> :> "single_text")
    @@ (<<Str("TE"), Str("ML"), None>> :> "multi_text")
    @@ (<<Str("TE"), Str("ESTB"), None>> :> "essay")
    @@ (<<Str("TE"), None, None>> :> "single_text")
    @@ (<<Str("MC"), Str("SAVR"), Str("TX")>> :> "single_choice")
    @@ (<<Str("MC"), Str("SAVR"), None>> :> "single_choice")
    @@ (<<Str("MC"), Str("SAHR"), None>> :> "single_choice")
    @@ (<<Str("MC"), Str("SACOL"), None>> :> "single_choice")
    @@ (<<Str("MC"), Str("MAVR"), Str("TX")>> :> "multi_choice")
    @@ (<<Str("MC"), Str("MAVR"), None>> :> "multi_choice")
    @@ (<<Str("MC"), Str("MAHR"), None>> :> "multi_choice")
    @@ (<<Str("MC"), Str("MACOL"), None>> :> "multi_choice")
    @@ (<<Str("MC"), Str("DL"), None>> :> "single_choice")
    @@ (<<Str("MC"), Str("RB"), None>> :> "single_choice")
    @@ (<<Str("MC"), Str("NPS"), None>> :> "single_choice")
    @@ (<<Str("DB"), Str("TB"), None>> :> "display")
    @@ (<<Str("DB"), Str("GRB"), None>> :> "display")
    @@ (<<Str("Slider"), Str("HBAR"), None>> :> "single_text")
    @@ (<<Str("Slider"), Str("HSLIDER"), None>> :> "single_text")
    @@ (<<Str("SBS"), None, None>> :> "matrix_text")

\* QSF_TYPE_MAP.get(type_key) alone, without the retry
internal_type_NoFallback(qtype, selector, subselector) ==
    dict_get(QSF_TYPE_MAP, <<qtype, selector, subselector>>, "unknown")

\* QSF_TYPE_MAP.get(type_key), then, when that gave None (no entry of the
\* map is falsy), QSF_TYPE_MAP.get((qtype, selector, None), 'unknown')
internal_type_of(qtype, selector, subselector) ==
    IF <<qtype, selector, subselector>> \in DOMAIN QSF_TYPE_MAP
    THEN QSF_TYPE_MAP[<<qtype, selector, subselector>>]
    ELSE dict_get(QSF_TYPE_MAP, <<qtype, selector, None>>, "unknown")

\* the JSON objects with no key
NoKeys == <<>>

\* question_text = clean_html_text(payload.get('QuestionText', ''))
clean_html_value(text) == IF pd_isna(text) THEN "" ELSE clean_html_text(text.s)

payload_text(payload) == clean_html_value(dict_get(payload, "QuestionText", Str("")))

\* the metadata dictionary that parse_qsf stores under the export tag
QuestionMetadata(qid, export_tag, payload, qtype, selector, subselector) ==
    [qid |-> qid, export_tag |-> export_tag, qsf_type |-> qtype,
     selector |-> selector, subselector |-> subselector]
    @@ Definition(internal_type_of(qtype, selector, subselector), payload_text(payload),
                  dict_get(payload, "ChoiceOrder", <<>>),
                  dict_get(payload, "Choices", EmptyDict),
                  dict_get(payload, "AnswerOrder", <<>>),
                  dict_get(payload, "Answers", EmptyDict))

\* the body of the loop for an SQ element
ParsePayload(questions, qid, payload, export_tag) ==
    IF pd_isna(export_tag) \/ export_tag.s = "" THEN questions
    ELSE Put(questions, export_tag.s,
             QuestionMetadata(qid, export_tag.s, payload,
                              dict_get(payload, "QuestionType", Str("")),
                              dict_get(payload, "Selector", Str("")),
                              dict_get(payload, "SubSelector", None)))

\* one turn of the loop over data.get('SurveyElements', [])
ParseElement(questions, element) ==
    IF dict_get(element, "Element", None) # Str("SQ") THEN questions
    ELSE ParsePayload(questions, dict_get(element, "PrimaryAttribute", Str("")),
                      dict_get(element, "Payload", NoKeys),
                      dict_get(dict_get(element, "Payload", NoKeys), "DataExportTag", Str("")))

(***************************************************************************)
(* The formatters of a respondent's answer.  An answer is rendered as      *)
(*   kind   empty | value | list | data_table | checkmark | matrix,        *)
(*          or raised with the exception that left the formatter           *)
(*   cols   the column headers of the checkmark table or the matrix        *)
(*   rows   the rows: a label and cells; a cell has a mark (the value type *)
(*          it was formatted as, or dash, yes, no) and the text of a value *)
(* A formatter first lays the answer out, with the items whose values      *)
(* format_value is to format, and the layout is then filled with the       *)
(* formatted values.                                                       *)
(***************************************************************************)

Rendered(kind, cols, rows) == [kind |-> kind, raised |-> "", cols |-> cols, rows |-> rows]

Raises(exception) == [kind |-> "raised", raised |-> exception, cols |-> <<>>, rows |-> <<>>]

Layout(kind, cols, rows, items, q_text) ==
    [kind |-> kind, raised |-> "", cols |-> cols, rows |-> rows, items |-> items,
     q_text |-> q_text]

LayoutRaises(exception) ==
    [kind |-> "raised", raised |-> exception, cols |-> <<>>, rows |-> <<>>, items |-> <<>>,
     q_text |-> ""]

\* <span class='no-response'>No response</span>
format_empty == Layout("empty", <<>>, <<>>, <<>>, "")

\* row.get(col_id)
row_get(row, col_id) == dict_get(row, col_id, None)

AnItem(label, val, col_id) == [label |-> label, value |-> val, col_id |-> col_id]

\* format_value for each item in turn: the type it formats the value as, or
\* the ValueError of detect_value_type
RECURSIVE ValueTypes(_, _, _)
ValueTypes(items, q_text, n) ==
    IF n = 0 THEN <<>>
    ELSE Append(ValueTypes(items, q_text, n - 1),
                detect_value_type(items[n].value, q_text, items[n].col_id))

\* a label/value table of the items
_format_as_data_table(items, q_text) ==
    Layout("data_table", <<>>, [i \in DOMAIN items |-> items[i].label], items, q_text)

\* the strings of S in ascending order, as sorted() gives them
RECURSIVE SortedStrings(_)
SortedStrings(S) ==
    IF S = {} THEN <<>>
    ELSE LET first == CHOOSE a \in S : \A b \in S \ {a} : StrLess(a, b)
         IN  <<first>> \o SortedStrings(S \ {first})

\* selections[i] is item['selections'] of the i-th item
CheckRows(items, selections, col_order) ==
    [i \in DOMAIN items |->
        [label |-> items[i].label,
         cells |-> [c \in DOMAIN col_order |->
                       [mark |-> IF col_order[c] \in selections[i] THEN "yes" ELSE "no",
                        text |-> ""]]]]

_format_as_checkmark_table(items, selections, all_selections) ==
    Layout("checkmark", SortedStrings(all_selections),
           CheckRows(items, selections, SortedStrings(all_selections)), <<>>, "")

\* the parts of a comma-separated value: [p.strip() for p in split if p.strip()]
Parts(val_str) == {Strip(Split(val_str, ",")[k]) : k \in DOMAIN Split(val_str, ",")} \ {""}

\* the tokens an item's value is read as
Tokens(val_str) ==
    IF Contains(val_str, ",") /\ ~is_coordinate(Str(val_str)) THEN Parts(val_str)
    ELSE {val_str}

\* item['is_categorical'], for the tokens of the item
IsCategorical(tokens) ==
    \A p \in tokens : Len(p) <= SHORT_VALUE_MAX_LENGTH /\ ~is_numeric_value(p)

\* the selection analysis of format_grouped_response and its choice of
\* table; tokens[i] are the tokens of the i-th item, and all_selections
\* those of the categorical items
SelectionTable(items, q_text, tokens, all_selections) ==
    IF /\ 2 <= Cardinality(all_selections) /\ Cardinality(all_selections) <= 10
       /\ 10 * Cardinality(all_selections) <= 7 * Len(items)
       /\ \A i \in DOMAIN items : IsCategorical(tokens[i])
    THEN _format_as_checkmark_table(items, tokens, all_selections)
    ELSE _format_as_data_table(items, q_text)

Selections(items, q_text, tokens) ==
    SelectionTable(items, q_text, tokens,
                   UNION {tokens[i] : i \in {i \in DOMAIN tokens : IsCategorical(tokens[i])}})

\* format_grouped_response once the items are collected
GroupedTable(items, q_text, all_values) ==
    IF items = <<>> THEN format_empty
    ELSE IF values_are_numeric_data(all_values) \/ values_are_unique_data(all_values)
    THEN _format_as_data_table(items, q_text)
    ELSE Selections(items, q_text, [i \in DOMAIN all_values |-> Tokens(all_values[i])])

\* the items of the rows in the order given: the non-empty values of the
\* rows' columns, with the rows' labels
RECURSIVE RowItems(_, _, _, _)
RowItems(rows, row, ordered, n) ==
    IF n = 0 THEN <<>>
    ELSE LET row_info == Get(rows, ordered[n])
             val == row_get(row, row_info.id)
         IN  RowItems(rows, row, ordered, n - 1)
             \o (IF is_empty(val) THEN <<>>
                 ELSE <<AnItem(row_info.label, Str(safe_str(val)), row_info.id)>>)

\* the items of the columns of a question without rows
RECURSIVE ColumnItems(_, _, _)
ColumnItems(columns, row, n) ==
    IF n = 0 THEN <<>>
    ELSE ColumnItems(columns, row, n - 1)
         \o (IF is_empty(row_get(row, columns[n])) THEN <<>>
             ELSE <<AnItem(columns[n], Str(safe_str(row_get(row, columns[n]))), columns[n])>>)

\* the answer of a question without rows: nothing, one value or a list
ValueList(values, q_text) ==
    IF values = <<>> THEN format_empty
    ELSE Layout(IF Len(values) = 1 THEN "value" ELSE "list", <<>>,
                [i \in DOMAIN values |-> ""], values, q_text)

GroupedItems(items, q_text) ==
    GroupedTable(items, q_text, [i \in DOMAIN items |-> safe_str(items[i].value)])

\* the rows in sorted order, or the exception of sorted()
GroupedRows(question, row, sorted) ==
    IF sorted.raised # "" THEN LayoutRaises(sorted.raised)
    ELSE GroupedItems(RowItems(question.rows, row, sorted.keys, Len(sorted.keys)), question.text)

format_grouped_response(question, row) ==
    IF question.rows.keys = <<>> /\ question.columns # <<>>
    THEN ValueList(ColumnItems(question.columns, row, Len(question.columns)), question.text)
    ELSE GroupedRows(question, row, SortedRows(question.rows.keys))

\* the table of a form's items
FormTable(items, q_text) ==
    IF items = <<>> THEN format_empty ELSE _format_as_data_table(items, q_text)

FormRows(question, row, sorted) ==
    IF sorted.raised # "" THEN LayoutRaises(sorted.raised)
    ELSE FormTable(RowItems(question.rows, row, sorted.keys, Len(sorted.keys)), question.text)

\* format_form_response.  Without rows the items are the columns; a column
\* with an item index always has a row, so their label is the column id.
format_form_response(question, row) ==
    IF question.rows.keys = <<>> /\ question.columns # <<>>
    THEN FormTable(ColumnItems(question.columns, row, Len(question.columns)), question.text)
    ELSE FormRows(question, row, SortedRows(question.rows.keys))

\* has_cells of format_matrix_response
has_cells(question) == \E r \in Elems(question.rows.keys) : Get(question.rows, r).has_cells

\* the cell-bound columns of a matrix: cell['id'] of every cell of every row
CellIds(rows) ==
    UNION {{Get(Get(rows, r).cells, c).id : c \in Elems(Get(rows, r).cells.keys)} :
              r \in {r \in Elems(rows.keys) : Get(rows, r).has_cells}}

\* the cells of the grid, row after row, as items: the value under a column
\* key, None where the row has no cell of that key
GridItems(rows, row, grid_rows, col_order) ==
    [k \in 1..(Len(grid_rows) * Len(col_order)) |->
        LET cells == Get(rows, grid_rows[1 + ((k - 1) \div Len(col_order))]).cells
            col_key == col_order[1 + ((k - 1) % Len(col_order))]
        IN  IF Has(cells, col_key)
            THEN AnItem("", row_get(row, Get(cells, col_key).id), Get(cells, col_key).id)
            ELSE AnItem("", None, "")]

\* the grid of the rows that have cells, in sorted order
GridOf(question, row, grid_rows) ==
    Layout("matrix",
           [c \in DOMAIN question.col_order |->
               IF Has(question.col_headers, question.col_order[c])
               THEN Get(question.col_headers, question.col_order[c])
               ELSE "Col " \o question.col_order[c]],
           [r \in DOMAIN grid_rows |-> Get(question.rows, grid_rows[r]).label],
           GridItems(question.rows, row, grid_rows, question.col_order), question.text)

MatrixRows_Unsorted(question, row, sorted) ==
    IF sorted.raised # "" THEN LayoutRaises(sorted.raised)
    ELSE GridOf(question, row,
                SelectSeq(question.rows.keys, LAMBDA r : Get(question.rows, r).has_cells))

MatrixRows(question, row, sorted) ==
    IF sorted.raised # "" THEN LayoutRaises(sorted.raised)
    ELSE GridOf(question, row,
                SelectSeq(sorted.keys, LAMBDA r : Get(question.rows, r).has_cells))

\* format_matrix_response for a question some row of which has cells
format_matrix_response(question, row) ==
    IF \A id \in CellIds(question.rows) : is_empty(row_get(row, id)) THEN format_empty
    ELSE MatrixRows(question, row, SortedRows(question.rows.keys))

format_single_response(question, row) ==
    IF question.columns = <<>> THEN format_empty
    ELSE ValueList(ColumnItems(<<question.columns[1]>>, row, 1), question.text)

\* has_response(question, row)
has_response(question, row) ==
    \E i \in DOMAIN question.columns : ~is_empty(row_get(row, question.columns[i]))

\* the formatter that generate_html's dispatch on the question's type ends
\* in; format_matrix_response passes a question no row of which has cells
\* on to format_grouped_response
FormatterOf(question) ==
    IF question.type = "matrix" THEN (IF has_cells(question) THEN "matrix" ELSE "grouped")
    ELSE IF question.type = "form" \/ question.internal_type = "form" THEN "form"
    ELSE IF question.type \in {"grouped", "choice"} THEN "grouped"
    ELSE IF question.type = "single" /\ Len(question.columns) # 1 THEN "grouped"
    ELSE "single"

LayoutBy(formatter, question, row) ==
    CASE formatter = "matrix" -> format_matrix_response(question, row)
      [] formatter = "form" -> format_form_response(question, row)
      [] formatter = "grouped" -> format_grouped_response(question, row)
      [] formatter = "single" -> format_single_response(question, row)

\* a cell holding a formatted value, a dash for the empty cell of a grid
ValueCell(type, item) ==
    IF type = "empty" THEN [mark |-> "dash", text |-> ""]
    ELSE [mark |-> type, text |-> safe_str(item.value)]

\* the layout with its values formatted; types: how format_value formats them
Filled(layout, types) ==
    IF \E k \in DOMAIN types : types[k] = ValueError THEN Raises(ValueError)
    ELSE IF layout.kind = "matrix"
    THEN Rendered("matrix", layout.cols,
                  [r \in DOMAIN layout.rows |->
                      [label |-> layout.rows[r],
                       cells |-> [c \in DOMAIN layout.cols |->
                                     ValueCell(types[(r - 1) * Len(layout.cols) + c],
                                               layout.items[(r - 1) * Len(layout.cols) + c])]]])
    ELSE IF layout.kind \in {"data_table", "value", "list"}
    THEN Rendered(layout.kind, <<>>,
                  [i \in DOMAIN layout.rows |->
                      [label |-> layout.rows[i],
                       cells |-> <<ValueCell(types[i], layout.items[i])>>]])
    ELSE [kind |-> layout.kind, raised |-> layout.raised, cols |-> layout.cols,
          rows |-> layout.rows]

Format(layout) == Filled(layout, ValueTypes(layout.items, layout.q_text, Len(layout.items)))

\* the respondent's answer as generate_html renders it
FormatAnswer(question, row) == Format(LayoutBy(FormatterOf(question), question, row))

(***************************************************************************)
(* parse_qsf's inputs and its loop                                         *)
(***************************************************************************)

MaxElements == 3

\* the values a field of a payload takes: a string or null
TypeFieldValues ==
    [QuestionType : {None, Str("Matrix"), Str("MC"), Str("TE")},
     Selector : {None, Str("Likert"), Str("SAVR"), Str("TE")},
     SubSelector : {None, Str("SingleAnswer"), Str("TX"), Str("DL")}]

\* f without the keys in absent
Without(f, absent) == [k \in DOMAIN f \ absent |-> f[k]]

\* the type fields of a payload, any of them missing
TypeFields ==
    {Without(f, absent) : f \in TypeFieldValues,
                          absent \in SUBSET {"QuestionType", "Selector", "SubSelector"}}

SurveyQuestion(qid, payload) ==
    [Element |-> Str("SQ"), PrimaryAttribute |-> Str(qid), Payload |-> payload]

Rating ==
    [DataExportTag |-> Str("Q1"), QuestionType |-> Str("Matrix"), Selector |-> Str("Likert"),
     SubSelector |-> Str("DL"), QuestionText |-> Str("<b>Rate</b> each"),
     ChoiceOrder |-> <<"1", "2">>,
     Choices |-> [keys |-> <<"1", "2">>, val |-> ("1" :> "Item &amp; A") @@ ("2" :> "Item B")],
     AnswerOrder |-> <<>>,
     Answers |-> [keys |-> <<"1">>, val |-> ("1" :> "<i>Good</i>")]]

\* the elements the documents are made of
CoreElements ==
    {SurveyQuestion("QID1", Rating),
     SurveyQuestion("QID2", [DataExportTag |-> Str("Q1"), QuestionType |-> Str("MC"),
                             Selector |-> Str("SAVR"), SubSelector |-> Str("TX")]),
     SurveyQuestion("QID3", [DataExportTag |-> Str("Q2"), QuestionType |-> Str("TE")]),
     SurveyQuestion("QID4", [QuestionType |-> Str("MC"), Selector |-> Str("SAVR")]),
     SurveyQuestion("QID5", [DataExportTag |-> Str(""), QuestionType |-> Str("DB"),
                             Selector |-> Str("TB")]),
     SurveyQuestion("QID6", [DataExportTag |-> None, QuestionType |-> Str("TE"),
                             Selector |-> Str("SL")]),
     [Element |-> Str("BL"), PrimaryAttribute |-> Str("Survey Blocks"),
      Payload |-> [DataExportTag |-> Str("Q3")]],
     [PrimaryAttribute |-> Str("QID7"), Payload |-> [DataExportTag |-> Str("Q3")]],
     [Element |-> Str("SQ")]}

\* the documents: a few elements, or one question with any type fields
SurveyDocuments ==
    UNION {[1..n -> CoreElements] : n \in 0..MaxElements}
    \cup {<<SurveyQuestion("QID1", f @@ [DataExportTag |-> Str("Q1")])>> : f \in TypeFields}

ParseInit ==
    /\ qsf_elements \in SurveyDocuments
    /\ qsf_pos = 0
    /\ qsf_parsed = EmptyDict
    /\ EarlierIdle
    /\ SorterIdle
    /\ RunIdle
    /\ RenderIdle
    /\ RespondIdle

\* one turn of the loop of parse_qsf
ParseNextElement ==
    /\ qsf_pos \in 0..(Len(qsf_elements) - 1)
    /\ qsf_parsed' = ParseElement(qsf_parsed, qsf_elements[qsf_pos + 1])
    /\ qsf_pos' = qsf_pos + 1
    /\ UNCHANGED <<qsf_elements, earlier_vars, sorter_vars, run_vars, render_vars, respond_vars>>

ParseNext == ParseNextElement

SpecParse == ParseInit /\ [][ParseNext]_vars

(***************************************************************************)
(* process_qualtrics and main: the steps of a run                          *)
(***************************************************************************)

FileNotFoundError == "FileNotFoundError"

JSONDecodeError == "JSONDecodeError"

OSError == "OSError"

\* validate_csv(csv_path)
validate_csv_raises(csv) ==
    IF csv = "missing" THEN FileNotFoundError
    ELSE IF csv = "unreadable" THEN ValueError
    ELSE ""

\* qsf_path and os.path.exists(qsf_path)
qsf_given(qsf) == qsf \notin {"none", "nonexistent"}

\* json.load(f) in parse_qsf
parse_qsf_raises(qsf) == IF qsf = "malformed" THEN JSONDecodeError ELSE ""

\* the steps of process_qualtrics in order, then the two ways main ends
StepsInOrder == <<"validate", "parse", "extract", "read", "generate", "write", "return">>

StepAfter(step) ==
    StepsInOrder[1 + CHOOSE i \in 1..(Len(StepsInOrder) - 1) : StepsInOrder[i] = step]

\* a run in which an exception does not leave process_qualtrics
StepReached_Continues(step, raised) == StepAfter(step)

\* an exception leaves process_qualtrics for main's except clause
StepReached(step, raised) == IF raised # "" THEN "except" ELSE StepAfter(step)

\* the files of a run: the tabular file, the definition file, the exceptions
\* that resolution, reading and rendering meet, and the state of the output path
RunInputs ==
    [csv : {"missing", "unreadable", "readable"},
     qsf : {"none", "nonexistent", "malformed", "valid"},
     extract : {"", KeyError},
     read : {"", ValueError},
     generate : {"", ValueError},
     output : {"absent", "earlier report"},
     writable : BOOLEAN]

RunInit ==
    /\ run_input \in RunInputs
    /\ run_phase = "validate"
    /\ run_raised = ""
    /\ failed_phase = ""
    /\ has_qsf = FALSE
    /\ phases_done = {}
    /\ output_file = run_input.output
    /\ output_writes = 0
    /\ run_outcome = ""
    /\ run_reports = 0
    /\ EarlierIdle
    /\ SorterIdle
    /\ ParserIdle
    /\ RenderIdle
    /\ RespondIdle

\* the step either returns or raises
Step(step, raised) ==
    /\ run_phase = step
    /\ run_raised' = raised
    /\ failed_phase' = IF raised # "" THEN step ELSE ""
    /\ phases_done' = IF raised # "" THEN phases_done ELSE phases_done \cup {step}
    /\ run_phase' = StepReached(step, raised)
    /\ UNCHANGED <<run_input, run_outcome, run_reports, earlier_vars, sorter_vars, parser_vars,
                   render_vars, respond_vars>>

\* validate_csv(csv_path)
ValidateCsv ==
    /\ Step("validate", validate_csv_raises(run_input.csv))
    /\ UNCHANGED <<has_qsf, output_file, output_writes>>

\* if qsf_path and os.path.exists(qsf_path): qsf_metadata = parse_qsf(qsf_path)
ParseQsf ==
    /\ IF qsf_given(run_input.qsf)
       THEN /\ Step("parse", parse_qsf_raises(run_input.qsf))
            /\ has_qsf' = (parse_qsf_raises(run_input.qsf) = "")
       ELSE /\ run_phase = "parse"
            /\ run_phase' = StepAfter("parse")
            /\ UNCHANGED <<has_qsf, run_raised, failed_phase, phases_done, run_input,
                           run_outcome, run_reports, earlier_vars, sorter_vars, parser_vars,
                   render_vars, respond_vars>>
    /\ UNCHANGED <<output_file, output_writes>>

\* extract_questions_with_qsf or extract_questions_from_csv
ExtractQuestions ==
    /\ Step("extract", run_input.extract)
    /\ UNCHANGED <<has_qsf, output_file, output_writes>>

\* read_csv_safe and the respondent records
ReadResponses ==
    /\ Step("read", run_input.read)
    /\ UNCHANGED <<has_qsf, output_file, output_writes>>

\* html = generate_html(questions, respondents, debug_mode, has_qsf)
GenerateHtml ==
    /\ Step("generate", run_input.generate)
    /\ UNCHANGED <<has_qsf, output_file, output_writes>>

\* with open(output_html, 'w') as f: f.write(html)
WriteOutput ==
    /\ Step("write", IF run_input.writable THEN "" ELSE OSError)
    /\ output_file' = IF run_input.writable THEN "report" ELSE output_file
    /\ output_writes' = IF run_input.writable THEN output_writes + 1 ELSE output_writes
    /\ UNCHANGED has_qsf

\* main after process_qualtrics returned
ReportGenerated ==
    /\ run_phase = "return"
    /\ run_phase' = "exit"
    /\ run_outcome' = "generated"
    /\ UNCHANGED <<run_input, run_raised, failed_phase, has_qsf, phases_done, output_file,
                   output_writes, run_reports, earlier_vars, sorter_vars, parser_vars,
                   render_vars, respond_vars>>

\* except Exception as e: logger.exception, print, sys.exit(1)
ReportFailed ==
    /\ run_phase = "except"
    /\ run_phase' = "exit"
    /\ run_outcome' = "failed"
    /\ run_reports' = run_reports + 1
    /\ UNCHANGED <<run_input, run_raised, failed_phase, has_qsf, phases_done, output_file,
                   output_writes, earlier_vars, sorter_vars, parser_vars,
                   render_vars, respond_vars>>

RunNext ==
    \/ ValidateCsv
    \/ ParseQsf
    \/ ExtractQuestions
    \/ ReadResponses
    \/ GenerateHtml
    \/ WriteOutput
    \/ ReportGenerated
    \/ ReportFailed

SpecRun == RunInit /\ [][RunNext]_vars

(***************************************************************************)
(* generate_html: the question cards of a report                           *)
(***************************************************************************)

MaxItems == 4

MaxRespondents == 2

\* int(re.search(r'Q(\d+)', q_id).group(1)) for the id of a question
QuestionNumber(q_id) == IntOf(SubSeq(q_id, 2, Len(q_id)))

\* sorted(questions.items(), key=...): the ids by number, equal numbers in
\* the order of the dict
RECURSIVE SortedQuestions(_, _)
SortedQuestions(ids, n) ==
    IF n = 0 THEN <<>>
    ELSE LET before == SortedQuestions(ids, n - 1)
             at == SetMinOr({i \in DOMAIN before :
                                QuestionNumber(ids[n]) < QuestionNumber(before[i])},
                            Len(before) + 1)
         IN  SubSeq(before, 1, at - 1) \o <<ids[n]>> \o SubSeq(before, at, Len(before))

\* extract_questions_with_qsf over the first n columns of the header
RECURSIVE ResolvedWithQsf(_, _, _)
ResolvedWithQsf(columns, qsf_metadata, n) ==
    IF n = 0 THEN Skipped(EmptyDict)
    ELSE LET before == ResolvedWithQsf(columns, qsf_metadata, n - 1)
         IN  IF before.raised # "" THEN before
             ELSE ScanWithQsf(before.questions, qsf_metadata, columns[n])

\* extract_questions_from_csv over the first n columns of the header
RECURSIVE ResolvedFromCsv(_, _)
ResolvedFromCsv(columns, n) ==
    IF n = 0 THEN Skipped(EmptyDict)
    ELSE LET before == ResolvedFromCsv(columns, n - 1)
         IN  IF before.raised # "" THEN before
             ELSE ScanFromCsv(before.questions, columns[n])

\* the structure resolution of process_qualtrics
Resolved(survey) ==
    IF survey.has_qsf
    THEN ResolvedWithQsf(survey.header, survey.qsf_metadata, Len(survey.header))
    ELSE ResolvedFromCsv(survey.header, Len(survey.header))

\* the card of a question: the answers of the respondents who answered it,
\* or the line No responses
AnswersOf(question, answered) ==
    [q_id |-> question.id, no_responses |-> answered = <<>>,
     answers |-> [i \in DOMAIN answered |->
                     [row |-> answered[i], answer |-> FormatAnswer(question, answered[i])]]]

Card(question, respondents) ==
    AnswersOf(question, SelectSeq(respondents, LAMBDA row : has_response(question, row)))

\* a formatter that patched the text of the question it renders
QuestionAfter_PatchesText(question, row) ==
    [question EXCEPT !.text = safe_str(row_get(row, question.columns[1]))]

\* the question dict as the formatter called for the row leaves it: no
\* formatter assigns to question, to question['rows'] or to a row_info; the
\* selections of format_grouped_response go into its own items
QuestionAfter(question, row) == question

\* the questions dict after the answers of a card were rendered
RECURSIVE QuestionsAfter(_, _, _, _)
QuestionsAfter(questions, q_id, answers, n) ==
    IF n = 0 THEN questions
    ELSE LET before == QuestionsAfter(questions, q_id, answers, n - 1)
         IN  [before EXCEPT !.val[q_id] = QuestionAfter(before.val[q_id], answers[n].row)]

\* the card as far as generate_html gets: up to the first answer that raises
UpToRaise(card) ==
    IF \A i \in DOMAIN card.answers : card.answers[i].answer.raised = "" THEN card
    ELSE [card EXCEPT !.answers =
             SubSeq(card.answers, 1,
                    SetMin({i \in DOMAIN card.answers : card.answers[i].answer.raised # ""}))]

\* the exception of the first answer that raised, "" if none
CardRaised(card) ==
    IF \E i \in DOMAIN card.answers : card.answers[i].answer.raised # ""
    THEN card.answers[SetMin({i \in DOMAIN card.answers :
                                 card.answers[i].answer.raised # ""})].answer.raised
    ELSE ""

\* the columns of the surveys
Column(id) == [id |-> id, text |-> NaN]

ItemColumns(base_q, n) == [i \in 1..n |-> Column(base_q \o "_" \o ToString(i))]

Survey(columns, has, qsf_metadata) ==
    [header |-> columns, has_qsf |-> has, qsf_metadata |-> qsf_metadata]

\* a definition of Q1 with the internal type given
DefinitionOfQ1(internal_type) ==
    "Q1" :> Definition(internal_type, "Rate the course", <<"35", "36">>, RatingChoices,
                       <<"1", "2">>, RatingAnswers)

\* the headers with one sub-index, read without definitions and with a
\* definition of each shape
ItemSurveys ==
    {Survey(ItemColumns("Q1", n), FALSE, <<>>) : n \in 1..MaxItems}
    \cup {Survey(ItemColumns("Q1", MaxItems), TRUE, DefinitionOfQ1(t)) :
             t \in {"form", "multi_choice", "matrix_likert", "single_text"}}
    \cup {Survey(<<Column("Q1_2"), Column("Q1_" \o SUP2), Column("Q1_1")>>, TRUE,
                 DefinitionOfQ1(t)) : t \in {"form", "multi_choice"}}
    \cup {Survey(<<Column("Q1"), Column("Q1_1"), Column("Q1_2")>>, TRUE, DefinitionOfQ1("form"))}
    \cup {Survey(<<Column("Q1_2"), Column("Q1_1")>>, TRUE, DefinitionOfQ1(t)) :
             t \in {"form", "multi_choice"}}

\* the headers with two sub-indices, and with two questions
MatrixSurveys ==
    {Survey(<<Column("Q1_1_1"), Column("Q1_1_2"), Column("Q1_2_1")>>, has, <<>>) :
        has \in BOOLEAN}
    \cup {Survey(<<Column("Q1_2_1"), Column("Q1_1_2"), Column("Q1_1_1")>>, TRUE,
                 DefinitionOfQ1("matrix_likert")),
          Survey(<<Column("Q1"), Column("Q1_1_1"), Column("Q1_2_1")>>, FALSE, <<>>),
          Survey(<<Column("Q1"), Column("Q2_1"), Column("Q2_2")>>, FALSE, <<>>),
          Survey(<<Column("Q10"), Column("Q2"), Column("Q1_1")>>, FALSE, <<>>)}

Surveys == ItemSurveys \cup MatrixSurveys

\* the values of a cell of the responses: pandas reads an empty cell as NaN
CellValues == {NaN, Str("Red"), Str("Blue"), Str("Red,Blue"), Str("5"), Str(SUP2)}

HeaderIds(columns) == {columns[i].id : i \in DOMAIN columns}

\* the response tables of a header: one respondent with any values, or up to
\* MaxRespondents respondents who left a cell empty or answered Red
ResponseTables(columns) ==
    {<<row>> : row \in [HeaderIds(columns) -> CellValues]}
    \cup UNION {[1..n -> [HeaderIds(columns) -> {NaN, Str("Red")}]] : n \in 0..MaxRespondents}

\* a row of the values given, in the order of the columns
RowOf(columns, values) ==
    [id \in HeaderIds(columns) |->
        LET v == values[CHOOSE i \in DOMAIN columns : columns[i].id = id]
        IN  IF v = "" THEN NaN ELSE Str(v)]

Report(survey, respondents) == [survey |-> survey, respondents |-> respondents]

\* reports of more items than MaxItems
SampleReports ==
    {Report(Survey(ItemColumns("Q1", Len(values)), FALSE, <<>>),
            <<RowOf(ItemColumns("Q1", Len(values)), values)>>) :
        values \in {<<"1", "2", "3", "Red", "Blue", "Green">>,
                    <<"1", "2", "Red", "Blue", "Green", "Grey">>,
                    <<"a", "bb", "ccc", "dddd", "ee", "ff", "a", "bb", "ccc", "dddd", "ee", "ff">>,
                    <<"a", "bb", "ccc", "ddd", "ee", "ff", "a", "bb", "ccc", "ddd", "ee", "ff">>,
                    <<"Red", "me@x.org", "Blue", "Red", "Blue", "Red", "Blue">>,
                    <<"Red", "1/2/2020", "Blue", "Red", "Blue", "Red">>,
                    <<"Red", "Blue", "Red", "Blue", "once in a blue moon">>,
                    <<"Red", "Blue", "Red", "1.5, 2.5", "Blue", "1.5, 2.5">>,
                    <<"Red", "Blue", "Red", "Blue", "Blue", "Red, 5">>,
                    <<"a,b,c,d", "e,f,g,h", "i,j,k,l">>,
                    <<"a,b,c,d", "e,f,g,h", "i,j">>,
                    <<"a", "b", "c", "d", "e", "f", "g", "h", "i", "j", "k",
                      "a", "b", "c", "d", "e", "f", "g", "h", "i", "j", "k">>,
                    <<"a", "b", "c", "d", "e", "f", "g", "h", "i", "j",
                      "a", "b", "c", "d", "e", "f", "g", "h", "i", "j">>}}

Reports ==
    UNION {{Report(survey, respondents) : respondents \in ResponseTables(survey.header)} :
              survey \in Surveys}
    \cup SampleReports

RenderInit ==
    /\ \E report \in Reports :
           /\ rpt_survey = report.survey
           /\ rpt_respondents = report.respondents
    /\ rpt_questions = EmptyDict
    /\ rpt_phase = "extract"
    /\ rpt_summary = <<>>
    /\ rpt_cards = <<>>
    /\ rpt_raised = ""
    /\ EarlierIdle
    /\ SorterIdle
    /\ ParserIdle
    /\ RunIdle
    /\ RespondIdle

\* questions = extract_questions_with_qsf(...) or extract_questions_from_csv(...)
ResolveQuestions ==
    /\ rpt_phase = "extract"
    /\ \E resolved \in {Resolved(rpt_survey)} :
           /\ rpt_questions' = resolved.questions
           /\ rpt_raised' = resolved.raised
           /\ rpt_phase' = IF resolved.raised # "" THEN "raised" ELSE "summary"
    /\ UNCHANGED <<rpt_survey, rpt_respondents, rpt_summary, rpt_cards, earlier_vars,
                   sorter_vars, parser_vars, run_vars, respond_vars>>

\* type_counts.get(qtype, 0) of generate_html: q.get('type', 'single') of
\* every question counted
type_count(questions, qtype) ==
    Cardinality({i \in DOMAIN questions.keys : Get(questions, questions.keys[i]).type = qtype})

\* the summary block counted none of the questions as a matrix
SummaryOf_NoMatrix(questions, respondents) ==
    [respondents |-> Len(respondents), questions |-> Len(questions.keys), matrix |-> 0]

\* the values of the summary block
SummaryOf(questions, respondents) ==
    [respondents |-> Len(respondents),
     questions |-> Len(questions.keys),
     matrix |-> type_count(questions, "matrix")]

\* generate_html up to its loop: the summary block
RenderSummary ==
    /\ rpt_phase = "summary"
    /\ rpt_summary' = SummaryOf(rpt_questions, rpt_respondents)
    /\ rpt_phase' = IF rpt_questions.keys = <<>> THEN "done" ELSE "generate"
    /\ UNCHANGED <<rpt_survey, rpt_respondents, rpt_questions, rpt_cards, rpt_raised,
                   earlier_vars, sorter_vars, parser_vars, run_vars, respond_vars>>

\* generate_html: one turn of the loop over sorted_qs
RenderCard ==
    /\ rpt_phase = "generate"
    /\ \E card \in {UpToRaise(Card(Get(rpt_questions,
                                       SortedQuestions(rpt_questions.keys,
                                                       Len(rpt_questions.keys))[Len(rpt_cards) + 1]),
                                   rpt_respondents))} :
           /\ rpt_raised' = CardRaised(card)
           /\ rpt_cards' = Append(rpt_cards, card)
           /\ rpt_questions' = QuestionsAfter(rpt_questions, card.q_id, card.answers,
                                              Len(card.answers))
           /\ rpt_phase' = IF CardRaised(card) # "" THEN "raised"
                           ELSE IF Len(rpt_cards) + 1 = Len(rpt_questions.keys) THEN "done"
                           ELSE "generate"
    /\ UNCHANGED <<rpt_survey, rpt_respondents, rpt_summary, earlier_vars, sorter_vars,
                   parser_vars, run_vars, respond_vars>>

RenderNext == ResolveQuestions \/ RenderSummary \/ RenderCard

SpecRender == RenderInit /\ [][RenderNext]_vars

(***************************************************************************)
(* process_qualtrics: the response rows and the respondents                *)
(***************************************************************************)

MaxLines == 3

\* str(n) for a natural number
RECURSIVE DecimalOf(_)
DecimalOf(n) ==
    IF n < 10 THEN SubSeq("0123456789", n + 1, n + 1)
    ELSE DecimalOf(n \div 10) \o SubSeq("0123456789", (n % 10) + 1, (n % 10) + 1)

\* get_val(key) of get_respondent_info
get_val(row, key) == safe_str(dict_get(row, key, Str("")))

\* the display name by the priority name > email > ref > id > anonymous
DisplayName(first, last, email, ext_ref, resp_id, index) ==
    IF first # "" THEN Strip(first \o " " \o last)
    ELSE IF email # "" THEN email
    ELSE IF ext_ref # "" THEN ext_ref
    ELSE IF resp_id # "" THEN resp_id
    ELSE "Anonymous #" \o DecimalOf(index + 1)

get_respondent_info(row, index) ==
    [name |-> DisplayName(get_val(row, "RecipientFirstName"), get_val(row, "RecipientLastName"),
                          get_val(row, "RecipientEmail"), get_val(row, "ExternalReference"),
                          get_val(row, "ResponseId"), index),
     id |-> get_val(row, "ResponseId"),
     email |-> get_val(row, "RecipientEmail")]

\* a line of the file: a record of as many fields as the header at most, a
\* line of more fields, or a blank line
Line(kind, row) == [kind |-> kind, row |-> row]

\* pd.read_csv(..., dtype=str, on_bad_lines='warn', skiprows=[1]): a line
\* of too many fields is skipped with a warning, a blank line is skipped
read_csv_safe(lines) ==
    LET kept == SelectSeq(lines, LAMBDA line : line.kind = "record")
    IN  [i \in DOMAIN kept |-> kept[i].row]

\* astype(str) of a cell
astype_str(cell) == IF pd_isna(cell) THEN "nan" ELSE cell.s

\* df.iloc[0].astype(str).str.contains('ImportId|{').any()
HasImportId(row) ==
    \E col \in DOMAIN row :
        Contains(astype_str(row[col]), "ImportId") \/ Contains(astype_str(row[col]), "{")

\* the DataFrame without the ImportId row
WithoutImportId(rows) ==
    IF Len(rows) > 0 /\ HasImportId(rows[1]) THEN Tail(rows) ELSE rows

IdentityColumns ==
    {"RecipientFirstName", "RecipientLastName", "RecipientEmail", "ExternalReference",
     "ResponseId"}

\* the rows of an export with the identity columns and one question
IdentityRows ==
    {[RecipientFirstName |-> first, RecipientLastName |-> last, RecipientEmail |-> email,
      ExternalReference |-> ext_ref, ResponseId |-> resp_id, Q1 |-> Str("Red")] :
        first \in {NaN, Str("  "), Str("Ann ")}, last \in {NaN, Str("Lee")},
        email \in {NaN, Str(" "), Str("ann@x.org")}, ext_ref \in {NaN, Str("E7")},
        resp_id \in {NaN, Str("R_1")}}

Anonymous(answer) ==
    [RecipientFirstName |-> NaN, RecipientLastName |-> NaN, RecipientEmail |-> NaN,
     ExternalReference |-> NaN, ResponseId |-> NaN, Q1 |-> answer]

\* the lines of the longer files: answers, the ImportId row, an answer with
\* a brace, a line of too many fields, a blank line
SampleLines ==
    {Line("record", Anonymous(Str("Red"))),
     Line("record", [c \in IdentityColumns \cup {"Q1"} |->
                        Str("{\"ImportId\":\"" \o c \o "\"}")]),
     Line("record", Anonymous(Str("{Red}"))),
     Line("long", Anonymous(Str("Red"))),
     Line("blank", Anonymous(NaN))}

\* the files: one line of any identity, or up to MaxLines sample lines, or an
\* export without identity columns
ResponseFiles ==
    {<<Line("record", row)>> : row \in IdentityRows}
    \cup UNION {[1..n -> SampleLines] : n \in 0..MaxLines}
    \cup {<<Line("record", [Q1 |-> Str("Red")]), Line("record", [Q1 |-> NaN])>>}

RespondInit ==
    /\ csv_lines \in ResponseFiles
    /\ df = <<>>
    /\ resp_phase = "read"
    /\ resp_list = <<>>
    /\ resp_returned = -1
    /\ EarlierIdle
    /\ SorterIdle
    /\ ParserIdle
    /\ RunIdle
    /\ RenderIdle

\* df = read_csv_safe(csv_path, skiprows=[1])
ReadCsv ==
    /\ resp_phase = "read"
    /\ df' = read_csv_safe(csv_lines)
    /\ resp_phase' = "skip"
    /\ UNCHANGED <<csv_lines, resp_list, resp_returned, earlier_vars, sorter_vars,
                   parser_vars, run_vars, render_vars>>

\* if len(df) > 0 and ...contains('ImportId|{').any(): df = df.iloc[1:]
SkipImportIdRow ==
    /\ resp_phase = "skip"
    /\ df' = WithoutImportId(df)
    /\ resp_phase' = "process"
    /\ UNCHANGED <<csv_lines, resp_list, resp_returned, earlier_vars, sorter_vars,
                   parser_vars, run_vars, render_vars>>

\* one record of the comprehension that builds respondents
ProcessRespondent ==
    /\ resp_phase = "process"
    /\ Len(resp_list) < Len(df)
    /\ resp_list' = Append(resp_list,
                           [info |-> get_respondent_info(df[Len(resp_list) + 1], Len(resp_list)),
                            row |-> df[Len(resp_list) + 1]])
    /\ UNCHANGED <<csv_lines, df, resp_phase, resp_returned, earlier_vars, sorter_vars,
                   parser_vars, run_vars, render_vars>>

\* return len(respondents), len(questions)
ReturnCounts ==
    /\ resp_phase = "process"
    /\ Len(resp_list) = Len(df)
    /\ resp_returned' = Len(resp_list)
    /\ resp_phase' = "done"
    /\ UNCHANGED <<csv_lines, df, resp_list, earlier_vars, sorter_vars, parser_vars,
                   run_vars, render_vars>>

RespondNext == ReadCsv \/ SkipImportIdRow \/ ProcessRespondent \/ ReturnCounts

SpecRespond == RespondInit /\ [][RespondNext]_vars

(***************************************************************************)
(* Claims about the classifier                                             *)
(***************************************************************************)

Tags ==
    {"empty", "timing", "url", "file", "coordinate", "json", "hierarchical",
     "pipe_list", "semicolon_list", "comma_list", "long_text", "code", "text"}

Classified == value_type \notin {"pending", "idle"}

IsBlank(v) == v.na \/ Strip(v.s) = ""

NoNumericKeyword(qtext) == ~contains_any(qtext, NUMERIC_QUESTION_KEYWORDS)

\* C1: detect_value_type returns exactly one of the thirteen tags for every
\* (value, question text, column id), and returns empty if and only if the
\* value is null or blank after trimming.
C1_TotalAndEmptyIffBlank ==
    Classified =>
        /\ value_type \in Tags
        /\ (value_type = "empty" <=> IsBlank(value))

\* the tag of the first rule of the decision list whose predicate holds
FirstMatchTag(v, qtext, col) ==
    LET rules ==
            <<[tag |-> "timing", holds |-> is_timing_column(col)],
              [tag |-> IF is_file_path(v) THEN "file" ELSE "url", holds |-> is_url(v)],
              [tag |-> "file", holds |-> is_file_path(v)],
              [tag |-> "coordinate", holds |-> is_coordinate(v)],
              [tag |-> "json", holds |-> is_json(v)],
              [tag |-> "hierarchical", holds |-> is_hierarchical(v)],
              [tag |-> "pipe_list", holds |-> is_multi_value(v, "|")],
              [tag |-> "semicolon_list", holds |-> is_multi_value(v, ";")],
              [tag |-> "comma_list", holds |-> is_multi_value(v, ",")],
              [tag |-> "long_text", holds |-> is_long_text(v)],
              [tag |-> "code",
               holds |-> ~is_numeric_code_raises(v, qtext) /\ is_numeric_code(v, qtext)],
              [tag |-> "text", holds |-> TRUE]>>
        first == SetMin({i \in DOMAIN rules : rules[i].holds})
    IN  rules[first].tag

\* C2: for every non-blank value the tag returned is that of the first rule,
\* in the order timing, url/file, file, coordinate, json, hierarchical,
\* pipe_list, semicolon_list, comma_list, long_text, code, text, whose
\* predicate holds.
C2_FirstMatchWins ==
    (Classified /\ ~IsBlank(value)) =>
        value_type = FirstMatchTag(value, question_text, column_id)

\* the value is a comma-separated list of n >= 2 all-digit tokens of at most
\* three digits each
DigitTokens(v) == Split(Strip(v.s), ",")

ShortDigitList(v) ==
    /\ ~v.na
    /\ Len(DigitTokens(v)) >= 2
    /\ \A k \in DOMAIN DigitTokens(v) :
           LET p == Strip(DigitTokens(v)[k]) IN IsDigit(p) /\ Len(p) <= 3

DecimalPair(v) ==
    /\ Len(DigitTokens(v)) = 2
    /\ \A k \in DOMAIN DigitTokens(v) : ~IntRaises(Strip(DigitTokens(v)[k]))

\* C3 as stated: every such list, classified (in an ordinary column) with a
\* question text without a numeric-answer keyword, is tagged code whatever
\* its number of tokens.
C3_DigitListIsCode ==
    (/\ Classified
     /\ ShortDigitList(value)
     /\ NoNumericKeyword(question_text)
     /\ ~is_timing_column(column_id)) =>
        value_type = "code"

\* C3 as amended: such a list is never tagged comma_list; it is tagged timing
\* in a timing column, else coordinate when it is a pair of decimal numbers,
\* else long_text when it is longer than 200 characters after trimming, and
\* code in every other case (so "1,2,3" in an ordinary column is code).
C3_DigitListTag ==
    (Classified /\ ShortDigitList(value) /\ NoNumericKeyword(question_text)) =>
        /\ value_type # "comma_list"
        /\ value_type =
              IF is_timing_column(column_id) THEN "timing"
              ELSE IF DecimalPair(value) THEN "coordinate"
              ELSE IF Len(Strip(value.s)) > LONG_TEXT_THRESHOLD THEN "long_text"
              ELSE "code"

C3_Witness ==
    /\ Classified
    /\ ShortDigitList(value)
    /\ Len(DigitTokens(value)) >= 3
    /\ NoNumericKeyword(question_text)
    /\ value_type = "code"

\* the value is, as is_numeric_code tests it with str.isdigit(), made of digits
\* only and has at most 200 characters
AllDigits(v) == ~v.na /\ IsDigit(v.s) /\ Len(v.s) <= LONG_TEXT_THRESHOLD

\* the tag the numeric-code range gives an all-digit value of integer value n
RangeTag(n, qtext) ==
    IF /\ NoNumericKeyword(qtext)
       /\ \/ (1 <= n /\ n <= 20)
          \/ (100 <= n /\ n <= 300 /\ n % 100 # 0)
    THEN "code"
    ELSE "text"

\* C26: an all-digit value of at most 200 characters, classified in an
\* ordinary column, is tagged code exactly when the question text has no
\* numeric-answer keyword and its integer value n satisfies 1 <= n <= 20, or
\* 100 <= n <= 300 with n not a multiple of 100; every other all-digit value,
\* and every all-digit value under a question text with such a keyword, is
\* tagged text.
C26_NumericCodeRange ==
    (Classified /\ AllDigits(value) /\ ~is_timing_column(column_id)) =>
        /\ value_type \in {"code", "text"}
        /\ (NoNumericKeyword(question_text) /\ value_type = "code") =>
               ~IntRaises(value.s) /\ RangeTag(IntOf(value.s), question_text) = "code"
        /\ (~IntRaises(value.s)) =>
               value_type = RangeTag(IntOf(value.s), question_text)

\* C26 for decimal digits: the range decides the tag of every value made of
\* the digits 0..9 only (leading zeros do not count: 007 is 7).
C26_DecimalDigits ==
    (Classified /\ AllDigits(value) /\ ~IntRaises(value.s)
     /\ ~is_timing_column(column_id)) =>
        value_type = RangeTag(IntOf(value.s), question_text)

\* C26: a value that str.isdigit() accepts and int() rejects (a superscript
\* digit) is tagged text under a question text with a numeric-answer keyword
\* and makes detect_value_type raise ValueError under any other.
C26_RaisedByDigit ==
    (Classified /\ AllDigits(value) /\ IntRaises(value.s)
     /\ ~is_timing_column(column_id)) =>
        value_type = IF NoNumericKeyword(question_text) THEN ValueError ELSE "text"

\* C26: in a timing column every all-digit value is tagged timing.
C26_TimingColumn ==
    (Classified /\ AllDigits(value) /\ is_timing_column(column_id)) =>
        value_type = "timing"

(***************************************************************************)
(* Claims about the normalizer                                             *)
(***************************************************************************)

\* C4: clean_html_text is idempotent: normalizing text that is already
\* normalized returns it unchanged.
C4_Idempotent == clean_calls = 2 => recleaned = cleaned

(***************************************************************************)
(* Claims about the label resolver                                         *)
(***************************************************************************)

LabelsOf(qsf_info, kind) == IF kind = "choice" THEN qsf_info.choices ELSE qsf_info.answers

OrderOf(qsf_info, kind) ==
    IF kind = "choice" THEN qsf_info.choice_order ELSE qsf_info.answer_order

Placeholder(position, kind) ==
    (IF kind = "choice" THEN "Row " ELSE "Column ") \o position

\* the 1-based indices p of the ordering list that position parses to and
\* whose identifier has a label
LabelledIndices(qsf_info, position, kind) ==
    {p \in 1..Len(OrderOf(qsf_info, kind)) :
        /\ ParseInt(position).ok
        /\ ParseInt(position).val = p
        /\ Has(LabelsOf(qsf_info, kind), OrderOf(qsf_info, kind)[p])}

\* C5: get_label_from_qsf returns (1) the label stored under the position
\* taken as an identifier, (2) otherwise the label of the identifier at the
\* 1-based index the position parses to, (3) otherwise the placeholder
\* "Row {position}" or "Column {position}"; it returns for every position
\* string, and a definition without labels gives the placeholder.
C5_LabelPriority ==
    label_calls = 1 =>
        LET labels == LabelsOf(lbl_info, lbl_type)
            order == OrderOf(lbl_info, lbl_type)
            indices == LabelledIndices(lbl_info, lbl_index, lbl_type)
        IN  /\ Has(labels, lbl_index) => lbl_label = Get(labels, lbl_index)
            /\ ~Has(labels, lbl_index) /\ indices # {} =>
                   \A p \in indices : lbl_label = Get(labels, order[p])
            /\ ~Has(labels, lbl_index) /\ indices = {} =>
                   lbl_label = Placeholder(lbl_index, lbl_type)
            /\ labels = EmptyDict => lbl_label = Placeholder(lbl_index, lbl_type)

\* a call answered from the ordering list, for an identifier that differs
\* from the position
C5_Witness ==
    /\ label_calls = 1
    /\ ~Has(LabelsOf(lbl_info, lbl_type), lbl_index)
    /\ LabelledIndices(lbl_info, lbl_index, lbl_type) # {}
    /\ lbl_label # Placeholder(lbl_index, lbl_type)

(***************************************************************************)
(* Claims about the structure resolver                                     *)
(***************************************************************************)

MatrixTypes == {"matrix_text", "matrix_likert", "matrix_multi"}

ChoiceTypes == {"single_choice", "multi_choice"}

InternalTypeOf(base_q) ==
    IF base_q \in DOMAIN definitions THEN definitions[base_q].internal_type
    ELSE "unknown"

QsfCompleted == pos_qsf > Len(header)

CsvCompleted == pos_csv > Len(header)

\* the columns of the header that the assisted (unassisted) scan binds to
\* the question base_q
ColumnsWithQsf(base_q) ==
    {j \in DOMAIN header : LET p == ParseWithQsf(header[j].id)
                           IN  ~Skips(p) /\ p.base_q = base_q}

ColumnsFromCsv(base_q) ==
    {j \in DOMAIN header : LET p == ParseFromCsv(header[j].id)
                           IN  ~Skips(p) /\ p.base_q = base_q}

\* C6: after an assisted scan a question of a matrix internal type has shape
\* matrix, each of its columns with two sub-indices bound as a cell of its
\* row and each with one sub-index bound as a row without column; a question
\* of internal type form has shape form; a question of a choice internal
\* type with a column that has a sub-index has shape choice.
C6_ShapeByInternalType ==
    QsfCompleted =>
        \A j \in DOMAIN header :
            LET p == ParseWithQsf(header[j].id)
                t == InternalTypeOf(p.base_q)
                q == Get(questions_qsf, p.base_q)
            IN  ~Skips(p) =>
                    /\ Has(questions_qsf, p.base_q)
                    /\ t \in MatrixTypes => q.type = "matrix"
                    /\ t \in MatrixTypes /\ p.sub1 # "" /\ p.sub2 # "" =>
                           /\ Has(q.rows, p.sub1)
                           /\ Has(Get(q.rows, p.sub1).cells, p.sub2)
                           /\ Get(Get(q.rows, p.sub1).cells, p.sub2).id = header[j].id
                    /\ t \in MatrixTypes /\ p.sub1 # "" /\ p.sub2 = "" =>
                           /\ Has(q.rows, p.sub1)
                           /\ ~Get(q.rows, p.sub1).has_cells
                           /\ Get(q.rows, p.sub1).id = header[j].id
                    /\ t = "form" => q.type = "form"
                    /\ t \in ChoiceTypes /\ p.sub1 # "" => q.type = "choice"

RowsAgree(a, b) ==
    /\ Elems(a.rows.keys) = Elems(b.rows.keys)
    /\ \A k \in Elems(a.rows.keys) :
           /\ Get(a.rows, k).label = Get(b.rows, k).label
           /\ Get(a.rows, k).id = Get(b.rows, k).id
           /\ Get(a.rows, k).has_cells = Get(b.rows, k).has_cells
           /\ Get(a.rows, k).cells.val = Get(b.rows, k).cells.val

SameStructure(a, b) ==
    /\ a.type = b.type
    /\ a.columns = b.columns
    /\ RowsAgree(a, b)
    /\ Elems(a.col_headers.keys) = Elems(b.col_headers.keys)
    /\ a.col_headers.val = b.col_headers.val
    /\ a.col_order = b.col_order
    /\ a.text = b.text

\* C7: for a question without definition, or with a definition of an
\* internal type that is not a matrix, form or choice type, the assisted scan
\* and the unassisted scan of the same header yield the same structure:
\* shape, columns, rows and their labels, column keys, labels and order, and
\* display text.
C7_FallbackAsUnassisted ==
    QsfCompleted /\ CsvCompleted =>
        \A base_q \in Elems(questions_qsf.keys) \cup Elems(questions_csv.keys) :
            InternalTypeOf(base_q) \notin MatrixTypes \cup {"form"} \cup ChoiceTypes =>
                /\ Has(questions_qsf, base_q)
                /\ Has(questions_csv, base_q)
                /\ SameStructure(Get(questions_qsf, base_q), Get(questions_csv, base_q))

\* the number of hyphen-separated segments of a header text
Segments(text) == IF pd_isna(text) THEN 0 ELSE Len(HeaderParts(clean_question_text(text)))

SubIndexCount(col_id) ==
    LET d1 == SkipWhile(col_id, 2, AsciiDigits)
        d2 == SkipWhile(col_id, d1 + 1, AsciiDigits)
        d3 == SkipWhile(col_id, d2 + 1, AsciiDigits)
        one == Slice(col_id, d1, d1) = "_" /\ d2 > d1 + 1
        two == one /\ Slice(col_id, d2, d2) = "_" /\ d3 > d2 + 1
    IN  IF two THEN 2 ELSE IF one THEN 1 ELSE 0

C9_NeverRaises ==
    /\ raised_qsf = ""
    /\ raised_csv = ""
    /\ QsfCompleted =>
           Elems(questions_qsf.keys) =
               {ParseWithQsf(header[j].id).base_q :
                   j \in {i \in DOMAIN header : ~Skips(ParseWithQsf(header[i].id))}}
    /\ CsvCompleted =>
           Elems(questions_csv.keys) =
               {ParseFromCsv(header[j].id).base_q :
                   j \in {i \in DOMAIN header : ~Skips(ParseFromCsv(header[i].id))}}

\* the column keys in the cells of the rows of a question
CellKeys(q) == UNION {Elems(Get(q.rows, r).cells.keys) : r \in Elems(q.rows.keys)}

\* the identifier of a column as the assisted (unassisted) scan reads it
ParseColumn(col_id, assisted) ==
    IF assisted THEN ParseWithQsf(col_id) ELSE ParseFromCsv(col_id)

\* the position in the header of the first of the given columns whose
\* second sub-index is key
FirstEncounter(columns, key, assisted) ==
    SetMin({j \in columns : ParseColumn(header[j].id, assisted).sub2 = key})

ColumnOrderKept(q, columns, assisted) ==
    /\ \A a, b \in DOMAIN q.col_order : a # b => q.col_order[a] # q.col_order[b]
    /\ Elems(q.col_order) = Elems(q.col_headers.keys)
    /\ Elems(q.col_order) = CellKeys(q)
    /\ \A key \in Elems(q.col_order) :
           \E j \in columns : ParseColumn(header[j].id, assisted).sub2 = key
    /\ \A a, b \in DOMAIN q.col_order :
           a < b => FirstEncounter(columns, q.col_order[a], assisted)
                        < FirstEncounter(columns, q.col_order[b], assisted)

\* C10: after each scanned column, in both scans, the col_order of every
\* question has no duplicates, holds exactly the keys of col_headers and
\* exactly the column keys of the cells of the rows, in the order in which
\* the header first shows them.
C10_ColumnOrder ==
    /\ \A base_q \in Elems(questions_qsf.keys) :
           ColumnOrderKept(Get(questions_qsf, base_q), ColumnsWithQsf(base_q), TRUE)
    /\ \A base_q \in Elems(questions_csv.keys) :
           ColumnOrderKept(Get(questions_csv, base_q), ColumnsFromCsv(base_q), FALSE)

\* both scans have met a column key a second time and hold two column keys
C10_Witness ==
    /\ QsfCompleted /\ CsvCompleted
    /\ \E base_q \in Elems(questions_qsf.keys) :
           /\ Len(Get(questions_qsf, base_q).col_order) = 2
           /\ Cardinality(ColumnsWithQsf(base_q)) = 3
    /\ \E base_q \in Elems(questions_csv.keys) :
           /\ Len(Get(questions_csv, base_q).col_order) = 2
           /\ Cardinality(ColumnsFromCsv(base_q)) = 3

\* C16: sorting a list of row keys with sort_row_key succeeds and yields the
\* same keys with every all-digit key before every other key, the all-digit
\* keys in ascending integer order and the other keys in ascending
\* case-insensitive lexicographic order.
InRowKeyOrder(a, b) ==
    /\ IsDigit(b) => IsDigit(a)
    /\ IsDigit(a) /\ IsDigit(b) => IntOf(a) <= IntOf(b)
    /\ ~IsDigit(a) /\ ~IsDigit(b) => ~StrLess(Lower(b), Lower(a))

C16_RowKeySort ==
    sort_calls = 1 =>
        /\ sort_raised = ""
        /\ Len(sorted_rows) = Len(row_keys)
        /\ Elems(sorted_rows) = Elems(row_keys)
        /\ \A i, j \in DOMAIN sorted_rows :
               i < j => InRowKeyOrder(sorted_rows[i], sorted_rows[j])

\* the columns a question records: its columns list and the columns bound
\* to its rows and cells
Recorded(q) ==
    Elems(q.columns)
    \cup {Get(q.rows, r).id : r \in {r \in Elems(q.rows.keys) : ~Get(q.rows, r).has_cells}}
    \cup CellIds(q.rows)

\* a column the resolvers must leave out: a metadata column or one that
\* carries a timing suffix
Excluded(col_id) ==
    \/ col_id \in METADATA_COLUMNS
    \/ \E suffix \in TIMING_SUFFIXES : Contains(col_id, suffix)

\* no question records an excluded column
NoneExcluded(questions) ==
    \A k \in Elems(questions.keys) : \A col_id \in Recorded(Get(questions, k)) : ~Excluded(col_id)

\* every column of the header that matches the naming grammar is in the
\* columns of the question of its base number alone, once; a text-field
\* column with a sub-index is in none
GrammarColumnsKept(questions) ==
    \A j \in DOMAIN header :
        LET col_id == header[j].id
            match == MatchColumnId(col_id, TRUE)
        IN  match.matched /\ ~Excluded(col_id) =>
                IF match.text /\ match.sub1 # ""
                THEN \A k \in Elems(questions.keys) : col_id \notin Recorded(Get(questions, k))
                ELSE /\ Has(questions, "Q" \o match.base)
                     /\ \A k \in Elems(questions.keys) :
                            Cardinality({i \in DOMAIN Get(questions, k).columns :
                                            Get(questions, k).columns[i] = col_id})
                                = IF k = "Q" \o match.base THEN 1 ELSE 0

\* C25: in either mode no question records a metadata column or a column
\* with a timing suffix, and once the scan is over every other column that
\* matches the naming grammar is recorded once, by the question of its base
\* number, except the text-field columns with a sub-index, which are dropped.
C25_ColumnsRecorded ==
    /\ NoneExcluded(questions_qsf)
    /\ NoneExcluded(questions_csv)
    /\ QsfCompleted => GrammarColumnsKept(questions_qsf)
    /\ CsvCompleted => GrammarColumnsKept(questions_csv)

\* both scans are over for a header with a metadata column, a timing column
\* and a question column, under a definition of the question
C25_Witness ==
    /\ QsfCompleted /\ CsvCompleted
    /\ {header[j].id : j \in DOMAIN header} = {"StartDate", "Q1_First Click", "Q1_1"}
    /\ "Q1" \in DOMAIN definitions
    /\ Get(questions_qsf, "Q1").columns = <<"Q1_1">>
    /\ Get(questions_csv, "Q1").columns = <<"Q1_1">>

\* the question-text segment extracted from the header text of column j
Segment(j) == extract_matrix_labels(header[j].text).base

\* the first of the longest segments of the columns the unassisted scan
\* binds to the question base_q
FirstLongest(base_q) ==
    LET cols == ColumnsFromCsv(base_q)
        first == SetMin({j \in cols : \A k \in cols : Len(Segment(k)) <= Len(Segment(j))})
    IN  Segment(first)

\* C27: after a complete unassisted scan the display text of every question
\* is the longest question-text segment of the header texts of its scanned
\* columns, the first of them on a tie in length, wherever in the header it
\* stands; it is empty only if every such segment is empty.
C27_LongestText ==
    CsvCompleted =>
        \A base_q \in Elems(questions_csv.keys) :
            /\ ColumnsFromCsv(base_q) # {}
            /\ Get(questions_csv, base_q).text = FirstLongest(base_q)
            /\ (Get(questions_csv, base_q).text = "") <=>
                   (\A j \in ColumnsFromCsv(base_q) : Segment(j) = "")

\* a longer segment after a shorter one, a blank header text among them
C27_Witness ==
    /\ CsvCompleted
    /\ Len(header) = 3
    /\ header[1].id = "Q1" /\ header[2].id = "Q1_2" /\ header[3].id = "Q1_1_1"
    /\ Get(questions_csv, "Q1").text = "Rate it"

\* two segments of the same length: the first one is kept
C27_TieKeepsFirst ==
    /\ CsvCompleted
    /\ Len(header) = 2
    /\ header[1].id = "Q1_1_2" /\ header[2].id = "Q1_1"
    /\ Segment(1) = "Fair" /\ Segment(2) = "Rate"
    /\ Get(questions_csv, "Q1").text = "Fair"

\* a question whose only header text is blank has an empty display text
C27_BlankText ==
    /\ CsvCompleted
    /\ Len(header) = 1
    /\ header[1].id = "Q1_2"
    /\ Get(questions_csv, "Q1").text = ""

(***************************************************************************)
(* Claims about the definition extractor                                   *)
(***************************************************************************)

\* the survey-question elements with a non-empty export tag among the
\* first n elements of the document
TaggedQuestions(n) ==
    {i \in 1..n :
        /\ "Element" \in DOMAIN qsf_elements[i] /\ qsf_elements[i].Element = Str("SQ")
        /\ "Payload" \in DOMAIN qsf_elements[i]
        /\ "DataExportTag" \in DOMAIN qsf_elements[i].Payload
        /\ ~pd_isna(qsf_elements[i].Payload.DataExportTag)
        /\ qsf_elements[i].Payload.DataExportTag.s # ""}

ExportTag(i) == qsf_elements[i].Payload.DataExportTag.s

\* a type field as the extractor reads it: a missing type or selector is '',
\* a missing sub-selector is None
FieldOf(i, field, missing) ==
    IF field \in DOMAIN qsf_elements[i].Payload THEN qsf_elements[i].Payload[field]
    ELSE missing

\* the entries of QSF_TYPE_MAP for a triple
EntriesFor(qtype, selector, subselector) ==
    {QSF_TYPE_MAP[k] : k \in {k \in DOMAIN QSF_TYPE_MAP : k = <<qtype, selector, subselector>>}}

TypeByFallback(qtype, selector, subselector) ==
    IF EntriesFor(qtype, selector, subselector) # {}
    THEN EntriesFor(qtype, selector, subselector)
    ELSE IF EntriesFor(qtype, selector, None) # {}
         THEN EntriesFor(qtype, selector, None)
         ELSE {"unknown"}

\* the element whose definition is stored under a tag: the last one carrying it
LastTagged(tag) == SetMax({i \in TaggedQuestions(qsf_pos) : ExportTag(i) = tag})

C18_OneDefinitionPerElement ==
    qsf_pos = Len(qsf_elements) =>
        /\ Len(qsf_parsed.keys) = Cardinality(TaggedQuestions(qsf_pos))
        /\ \A tag \in Elems(qsf_parsed.keys) :
               \E i \in TaggedQuestions(qsf_pos) : ExportTag(i) = tag

\* C18 without the count: elements that are not survey questions or carry no
\* export tag produce no definition, and every tagged question has one
C18_SkipsUntagged ==
    qsf_pos = Len(qsf_elements) =>
        Elems(qsf_parsed.keys) = {ExportTag(i) : i \in TaggedQuestions(qsf_pos)}

(***************************************************************************)
(* Claims about a run                                                      *)
(***************************************************************************)

\* the steps that come before the write
StepsBeforeWrite == {"validate", "parse", "extract", "read", "generate"}

\* the steps before the write that this run has to take
StepsDue ==
    IF qsf_given(run_input.qsf) THEN StepsBeforeWrite ELSE StepsBeforeWrite \ {"parse"}

\* C19: the output file is written at most once and only after validation,
\* definition parsing, resolution, reading and generation have all returned;
\* when one of these steps raises, the output file keeps the content it had
\* before the run, and the run ends with exactly one failure report and never
\* with a success report.
C19_WriteLast ==
    /\ output_writes <= 1
    /\ output_file # run_input.output => output_writes = 1
    /\ output_writes = 1 => StepsDue \subseteq phases_done
    /\ failed_phase \in StepsBeforeWrite =>
           /\ output_file = run_input.output
           /\ output_writes = 0
           /\ run_outcome # "generated"
           /\ run_reports <= 1
           /\ run_phase = "exit" => run_outcome = "failed" /\ run_reports = 1

\* a run over an earlier report has ended after rendering raised
C19_Witness ==
    /\ run_phase = "exit"
    /\ failed_phase = "generate"
    /\ run_input.output = "earlier report"
    /\ run_outcome = "failed"

\* nothing but the definition file can make this run fail
OnlyDefinitionAtFault ==
    /\ run_input.csv = "readable"
    /\ run_input.extract = "" /\ run_input.read = "" /\ run_input.generate = ""
    /\ run_input.writable

\* C20: with a definition file that is absent (no path, or a path that does
\* not exist) or malformed, parsing does not fail the run: the run goes on
\* without definitions and, nothing else failing, ends with the report
\* generated.
C20_BadDefinitionSkipped ==
    run_input.qsf \in {"none", "nonexistent", "malformed"} =>
        /\ failed_phase # "parse"
        /\ ~has_qsf
        /\ run_phase = "exit" /\ OnlyDefinitionAtFault =>
               run_outcome = "generated" /\ output_file = "report"

\* C20 for the absent definition file alone
C20_AbsentDefinitionSkipped ==
    run_input.qsf \in {"none", "nonexistent"} =>
        /\ failed_phase # "parse"
        /\ ~has_qsf
        /\ run_phase = "exit" /\ OnlyDefinitionAtFault =>
               run_outcome = "generated" /\ output_file = "report"

(***************************************************************************)
(* Claims about the rendering of answers                                   *)
(***************************************************************************)

\* the answers of the cards built so far, each with its question and the
\* respondent's row
CardAnswers ==
    UNION {{[question |-> Get(rpt_questions, rpt_cards[c].q_id),
             row |-> rpt_cards[c].answers[i].row,
             answer |-> rpt_cards[c].answers[i].answer] :
               i \in DOMAIN rpt_cards[c].answers} : c \in DOMAIN rpt_cards}

\* the base questions of the header's question columns
BaseQuestions ==
    {ParseFromCsv(rpt_survey.header[i].id).base_q :
        i \in {i \in DOMAIN rpt_survey.header : ~Skips(ParseFromCsv(rpt_survey.header[i].id))}}

\* every column of the question carries exactly one sub-index
OneSubIndex(question) ==
    /\ question.columns # <<>>
    /\ \A i \in DOMAIN question.columns :
           /\ ParseFromCsv(question.columns[i]).sub1 # ""
           /\ ParseFromCsv(question.columns[i]).sub2 = ""

\* the answer shows every item of the question, an empty one with a dash
ShowsEveryItem(question, row, answer) ==
    /\ Len(answer.rows) = Len(question.columns)
    /\ \A i \in DOMAIN answer.rows :
           is_empty(row_get(row, question.columns[i])) =>
               answer.rows[i].cells = <<[mark |-> "dash", text |-> ""]>>

\* C11: without a definition file the finished report has one card per
\* base question of the header, and the answers of a question whose columns
\* carry one sub-index are rendered as a matrix in which an item the
\* respondent left empty is still shown, with a placeholder in its cell.
C11_ItemsAsMatrix ==
    ~rpt_survey.has_qsf =>
        /\ rpt_phase = "done" =>
               {rpt_cards[c].q_id : c \in DOMAIN rpt_cards} = BaseQuestions
               /\ Len(rpt_cards) = Cardinality(BaseQuestions)
        /\ \A a \in CardAnswers :
               OneSubIndex(a.question) /\ a.answer.raised = "" =>
                   a.answer.kind = "matrix" /\ ShowsEveryItem(a.question, a.row, a.answer)

\* C11 for the cards alone: one card per base question
C11_OneCardPerQuestion ==
    ~rpt_survey.has_qsf /\ rpt_phase = "done" =>
        /\ {rpt_cards[c].q_id : c \in DOMAIN rpt_cards} = BaseQuestions
        /\ Len(rpt_cards) = Cardinality(BaseQuestions)

\* the row keys of the items the respondent answered
Answered(question, row) ==
    {r \in Elems(question.rows.keys) : ~is_empty(row_get(row, Get(question.rows, r).id))}

\* the text of the respondent's value for the item of a row key
ItemValue(question, row, r) == safe_str(row_get(row, Get(question.rows, r).id))

\* the distinct values of the answered items
DistinctValues(question, row) ==
    {ItemValue(question, row, r) : r \in Answered(question, row)}

\* the distinct tokens of the answered items
Vocabulary(question, row) ==
    UNION {Tokens(ItemValue(question, row, r)) : r \in Answered(question, row)}

\* a single short non-numeric token
SingleToken(val) ==
    ~Contains(val, ",") /\ Len(val) <= SHORT_VALUE_MAX_LENGTH /\ ~is_numeric_value(val)

\* at least min_items answered items, each a single short non-numeric token,
\* two tokens in all, at most 0.7 tokens per item
TwoTokenAnswer(question, row, min_items) ==
    /\ Cardinality(Answered(question, row)) >= min_items
    /\ \A r \in Answered(question, row) : SingleToken(ItemValue(question, row, r))
    /\ Cardinality(DistinctValues(question, row)) = 2
    /\ 10 * 2 <= 7 * Cardinality(Answered(question, row))

\* the answers to grouped questions with bound rows that were rendered
GroupedAnswers ==
    {a \in CardAnswers : /\ a.question.type = "grouped"
                         /\ a.question.rows.keys # <<>>
                         /\ a.answer.raised = ""}

\* C12: a grouped question's answer of 3 or more items, each one of two
\* short non-numeric tokens (at most 0.7 tokens per item), is rendered as a
\* checkmark matrix, and an answer of 3 items with 12 distinct tokens as a
\* data table.
C12_TwoTokensCheckmark ==
    \A a \in GroupedAnswers :
        /\ TwoTokenAnswer(a.question, a.row, 3) => a.answer.kind = "checkmark"
        /\ Cardinality(Answered(a.question, a.row)) = 3
             /\ Cardinality(Vocabulary(a.question, a.row)) = 12
             => a.answer.kind = "data_table"

\* C12 from four items on, where two distinct values are at most half of
\* the values, and for the 12 tokens
C12_FromFourItems ==
    \A a \in GroupedAnswers :
        /\ TwoTokenAnswer(a.question, a.row, 4) => a.answer.kind = "checkmark"
        /\ Cardinality(Answered(a.question, a.row)) = 3
             /\ Cardinality(Vocabulary(a.question, a.row)) = 12
             => a.answer.kind = "data_table"

\* the number of answered items whose value passes the test
Share(question, row, Test(_)) ==
    Cardinality({r \in Answered(question, row) : Test(ItemValue(question, row, r))})

\* (a) the values are not predominantly numeric
NotMostlyNumeric(question, row) ==
    LET n == Cardinality(Answered(question, row))
        numeric == Share(question, row, is_numeric_value)
    IN  /\ 10 * numeric < 7 * n
        /\ ~(Cardinality(DistinctValues(question, row)) > 5 /\ 2 * numeric >= n)

\* (b) the values do not look like unique data
NotUniqueLooking(question, row) ==
    LET n == Cardinality(Answered(question, row))
        distinct == DistinctValues(question, row)
    IN  /\ 2 * Cardinality(distinct) <= n
        /\ ~(Cardinality(distinct) > 5 /\ Cardinality({Len(v) : v \in distinct}) > 3)
        /\ 10 * Share(question, row, IsDataPattern) < 3 * n

\* (c) every value splits into short non-numeric tokens
ShortTokensOnly(question, row) ==
    \A t \in Vocabulary(question, row) :
        Len(t) <= SHORT_VALUE_MAX_LENGTH /\ ~is_numeric_value(t)

\* (d) 2 to 10 distinct tokens, at most 0.7 per item
SmallVocabulary(question, row) ==
    LET tokens == Cardinality(Vocabulary(question, row))
    IN  2 <= tokens /\ tokens <= 10 /\ 10 * tokens <= 7 * Cardinality(Answered(question, row))

ChecksExpected(question, row) ==
    /\ NotMostlyNumeric(question, row)
    /\ NotUniqueLooking(question, row)
    /\ ShortTokensOnly(question, row)
    /\ SmallVocabulary(question, row)

\* a checkmark matrix of the answered items: a row per item, a column per
\* token in sorted order, a check where the item's value holds the token
IsCheckmarkMatrix(question, row, answer) ==
    /\ answer.kind = "checkmark"
    /\ answer.cols = SortedStrings(Vocabulary(question, row))
    /\ Len(answer.rows) = Cardinality(Answered(question, row))
    /\ {answer.rows[i].label : i \in DOMAIN answer.rows}
           = {Get(question.rows, r).label : r \in Answered(question, row)}
    /\ \A i \in DOMAIN answer.rows :
           \E r \in Answered(question, row) :
               /\ answer.rows[i].label = Get(question.rows, r).label
               /\ \A c \in DOMAIN answer.cols :
                      (answer.rows[i].cells[c].mark = "yes")
                          <=> (answer.cols[c] \in Tokens(ItemValue(question, row, r)))

\* the answers given by format_grouped_response to a grouped or choice
\* question with bound rows, for respondents with a non-empty item
ItemAnswers ==
    {a \in CardAnswers : /\ FormatterOf(a.question) = "grouped"
                         /\ a.question.type \in {"grouped", "choice"}
                         /\ a.question.rows.keys # <<>>
                         /\ Answered(a.question, a.row) # {}}

\* C13: the answer of a grouped or choice question with bound rows is a
\* checkmark matrix of the answered items exactly when their values are not
\* predominantly numeric, do not look like unique data, split into short
\* non-numeric tokens and have 2 to 10 distinct tokens at a ratio of at most
\* 0.7 per item; in every other case it is a data table.
C13_LayoutDecision ==
    \A a \in ItemAnswers :
        IF ChecksExpected(a.question, a.row)
        THEN IsCheckmarkMatrix(a.question, a.row, a.answer)
        ELSE a.answer.kind = "data_table"

\* C13 for the answers whose rendering does not raise
C13_LayoutUnlessRaised ==
    \A a \in ItemAnswers :
        a.answer.raised = "" =>
            IF ChecksExpected(a.question, a.row)
            THEN IsCheckmarkMatrix(a.question, a.row, a.answer)
            ELSE a.answer.kind = "data_table"

\* the answers of C13 that raise: a value or a row key that is a digit
\* int() does not accept
C13_RaisedByDigit ==
    \A a \in ItemAnswers :
        a.answer.raised # "" =>
            /\ a.answer.raised = ValueError
            /\ \/ \E r \in Answered(a.question, a.row) :
                      ItemValue(a.question, a.row, r) = SUP2
               \/ \E r \in Elems(a.question.rows.keys) : r = SUP2

\* the respondent answered none of the question's cell-bound columns
NoCellAnswered(question, row) ==
    \A id \in CellIds(question.rows) : is_empty(row_get(row, id))

\* a grid with a value in some cell
IsGridWithValue(answer) ==
    /\ answer.kind = "matrix"
    /\ \E r \in DOMAIN answer.rows : \E c \in DOMAIN answer.rows[r].cells :
           answer.rows[r].cells[c].mark # "dash"

\* how often a card shows that there is no response: its line No responses
\* and the empty-indicators of its answers
Indicators(card) ==
    (IF card.no_responses THEN 1 ELSE 0)
    + Cardinality({i \in DOMAIN card.answers : card.answers[i].answer.kind = "empty"})

\* the cards of the matrix questions whose rows carry cells
MatrixCards ==
    {c \in DOMAIN rpt_cards :
        LET question == Get(rpt_questions, rpt_cards[c].q_id)
        IN  question.type = "matrix" /\ has_cells(question)}

\* the answers format_matrix_response gave for a question with cells
MatrixAnswers == {a \in CardAnswers : a.question.type = "matrix" /\ has_cells(a.question)}

\* the card of a matrix no respondent answered a cell of shows the
\* no-response indicator once and no grid
IndicatorOnce(c) ==
    (\A k \in DOMAIN rpt_respondents :
        NoCellAnswered(Get(rpt_questions, rpt_cards[c].q_id), rpt_respondents[k]))
    => /\ Indicators(rpt_cards[c]) = 1
       /\ \A i \in DOMAIN rpt_cards[c].answers :
              rpt_cards[c].answers[i].answer.kind # "matrix"

\* C14: for a matrix question whose rows carry cells the answer is the
\* empty-indicator iff the respondent answered none of the cell-bound
\* columns and otherwise a grid with a value in some cell; and the card of
\* such a question without any answered cell shows the no-response
\* indicator exactly once and no grid.
C14_EmptyIndicator ==
    /\ \A a \in MatrixAnswers :
           IF NoCellAnswered(a.question, a.row) THEN a.answer.kind = "empty"
           ELSE IsGridWithValue(a.answer)
    /\ \A c \in MatrixCards : IndicatorOnce(c)

\* C14 for the answers alone, apart from those whose rendering raises
C14_GridUnlessRaised ==
    \A a \in MatrixAnswers :
        a.answer.raised = "" =>
            IF NoCellAnswered(a.question, a.row) THEN a.answer.kind = "empty"
            ELSE IsGridWithValue(a.answer)

\* C14 for the cards alone
C14_IndicatorOnce == \A c \in MatrixCards : IndicatorOnce(c)

\* C14 for the cards of the questions all of whose columns are cell-bound
C14_IndicatorOnceCellsOnly ==
    \A c \in MatrixCards :
        Elems(Get(rpt_questions, rpt_cards[c].q_id).columns)
            \subseteq CellIds(Get(rpt_questions, rpt_cards[c].q_id).rows)
        => IndicatorOnce(c)

\* the form questions with bound rows: their fields are the rows' columns
FormAnswers ==
    {a \in CardAnswers : FormatterOf(a.question) = "form" /\ a.question.rows.keys # <<>>}

\* the answered row keys in row-key sort order
AnsweredInOrder(question, row) ==
    SelectSeq(SortRowKeys(question.rows.keys, Len(question.rows.keys)),
              LAMBDA r : r \in Answered(question, row))

\* a label/value table with one row per answered field, in row-key order
IsFieldTable(question, row, answer) ==
    /\ answer.kind = "data_table"
    /\ Len(answer.rows) = Cardinality(Answered(question, row))
    /\ \A i \in DOMAIN answer.rows :
           /\ answer.rows[i].label = Get(question.rows, AnsweredInOrder(question, row)[i]).label
           /\ Len(answer.rows[i].cells) = 1
           /\ answer.rows[i].cells[1].text = ItemValue(question, row, AnsweredInOrder(question, row)[i])

\* C15: the answer of a form question is the empty-indicator when the
\* respondent filled no field, and otherwise a label/value table with one
\* row per non-empty field in row-key sort order, whatever the values are,
\* never a checkmark matrix or a list.
C15_FormAsTable ==
    \A a \in FormAnswers :
        IF Answered(a.question, a.row) = {} THEN a.answer.kind = "empty"
        ELSE IsFieldTable(a.question, a.row, a.answer)

\* C15 for the answers whose rendering does not raise
C15_FormUnlessRaised ==
    \A a \in FormAnswers :
        a.answer.raised = "" =>
            IF Answered(a.question, a.row) = {} THEN a.answer.kind = "empty"
            ELSE IsFieldTable(a.question, a.row, a.answer)

\* the answers of C15 that raise: a value or a row key that is a digit
\* int() does not accept
C15_RaisedByDigit ==
    \A a \in FormAnswers :
        a.answer.raised # "" =>
            /\ a.answer.raised = ValueError
            /\ \/ \E r \in Answered(a.question, a.row) :
                      ItemValue(a.question, a.row, r) = SUP2
               \/ \E r \in Elems(a.question.rows.keys) : r = SUP2

\* the question structures as structure resolution left them
ResolvedQuestions == Resolved(rpt_survey).questions

\* every answer of every card is the one the question as resolved gives for
\* the row, whatever was rendered before it
SameFragments ==
    \A c \in DOMAIN rpt_cards : \A i \in DOMAIN rpt_cards[c].answers :
        rpt_cards[c].answers[i].answer
            = FormatAnswer(Get(ResolvedQuestions, rpt_cards[c].q_id),
                           rpt_cards[c].answers[i].row)

Answerers(question) ==
    SelectSeq(rpt_respondents,
              LAMBDA row : \E i \in DOMAIN question.columns :
                               ~is_empty(row_get(row, question.columns[i])))

\* the card lists exactly the question's answerers, or the no-responses line
ListsAnswerers(card) ==
    /\ [i \in DOMAIN card.answers |-> card.answers[i].row]
           = Answerers(Get(rpt_questions, card.q_id))
    /\ card.no_responses <=> Answerers(Get(rpt_questions, card.q_id)) = <<>>

\* C22: a generated report has exactly one card per question structure;
\* each card lists, once each and in input order, the respondents with a
\* non-empty value in some column recorded for the question, or the
\* no-responses line when there are none; the summary block shows the
\* numbers of respondents, of questions and of matrix questions.
C22_CardsAndSummary ==
    rpt_phase = "done" =>
        /\ Len(rpt_cards) = Len(rpt_questions.keys)
        /\ {rpt_cards[c].q_id : c \in DOMAIN rpt_cards} = Elems(rpt_questions.keys)
        /\ \A c \in DOMAIN rpt_cards : ListsAnswerers(rpt_cards[c])
        /\ rpt_summary.respondents = Len(rpt_respondents)
        /\ rpt_summary.questions = Len(rpt_questions.keys)
        /\ rpt_summary.matrix
               = Cardinality({q \in Elems(rpt_questions.keys) :
                                 Get(rpt_questions, q).type = "matrix"})

\* a report of two respondents one of whom answered a matrix question
C22_Witness ==
    /\ rpt_phase = "done"
    /\ Len(rpt_respondents) = 2
    /\ rpt_summary.matrix = 1
    /\ \E c \in DOMAIN rpt_cards :
           /\ Get(rpt_questions, rpt_cards[c].q_id).type = "matrix"
           /\ Len(rpt_cards[c].answers) = 1
           /\ rpt_cards[c].answers[1].row = rpt_respondents[2]

(***************************************************************************)
(* Claims about the respondents                                            *)
(***************************************************************************)

\* the cell of a column trimmed, blank when the column or the cell is absent
Trimmed(row, col) ==
    IF col \in DOMAIN row /\ ~pd_isna(row[col]) THEN Strip(row[col].s) ELSE ""

\* the display name by strict priority, has_name telling whether the
\* respondent has a recipient name; n is the 1-based position of the row
NameByPriority(row, has_name, n) ==
    IF has_name
    THEN Strip(Trimmed(row, "RecipientFirstName") \o " " \o Trimmed(row, "RecipientLastName"))
    ELSE IF Trimmed(row, "RecipientEmail") # "" THEN Trimmed(row, "RecipientEmail")
    ELSE IF Trimmed(row, "ExternalReference") # "" THEN Trimmed(row, "ExternalReference")
    ELSE IF Trimmed(row, "ResponseId") # "" THEN Trimmed(row, "ResponseId")
    ELSE "Anonymous #" \o DecimalOf(n)

\* C23: the display name is the first and last name joined when the
\* respondent has a first or a last name, else the email, else the external
\* reference, else the response id, else Anonymous #N for the N-th row.
C23_NamePriority ==
    \A n \in DOMAIN resp_list :
        resp_list[n].info.name
            = NameByPriority(resp_list[n].row,
                             Trimmed(resp_list[n].row, "RecipientFirstName") # ""
                                 \/ Trimmed(resp_list[n].row, "RecipientLastName") # "",
                             n)

\* C23 with the first name alone deciding whether there is a name
C23_FirstNameDecides ==
    \A n \in DOMAIN resp_list :
        resp_list[n].info.name
            = NameByPriority(resp_list[n].row,
                             Trimmed(resp_list[n].row, "RecipientFirstName") # "", n)

\* the data rows of the file: its lines that are not blank
DataRows ==
    LET data == SelectSeq(csv_lines, LAMBDA line : line.kind # "blank")
    IN  [i \in DOMAIN data |-> data[i].row]

\* the export's metadata row: some cell holds ImportId or a brace
IsMetadataRow(row) ==
    \E col \in DOMAIN row :
        ~pd_isna(row[col]) /\ (Contains(row[col].s, "ImportId") \/ Contains(row[col].s, "{"))

\* the data rows without the first one when that is the metadata row
RowsExpected(rows) ==
    IF rows # <<>> /\ IsMetadataRow(rows[1]) THEN Tail(rows) ELSE rows

\* C24: every data row after the two header rows becomes one respondent, in
\* file order, except the first data row when it is the metadata row; the
\* count returned is the number of the remaining rows.
C24_RowsToRespondents ==
    resp_phase = "done" =>
        /\ [n \in DOMAIN resp_list |-> resp_list[n].row] = RowsExpected(DataRows)
        /\ resp_returned = Len(RowsExpected(DataRows))

\* C24 for the files without a line of more fields than the header
C24_WellFormedFile ==
    resp_phase = "done" /\ (\A i \in DOMAIN csv_lines : csv_lines[i].kind # "long") =>
        /\ [n \in DOMAIN resp_list |-> resp_list[n].row] = RowsExpected(DataRows)
        /\ resp_returned = Len(RowsExpected(DataRows))

(***************************************************************************)
(* Claims about the grid, and about answers lost or listed without a value *)
(***************************************************************************)

\* the grids rendered
GridAnswers == {a \in CardAnswers : a.answer.kind = "matrix"}

\* the row keys of the question whose rows carry cells
CellRows(question) ==
    {r \in Elems(question.rows.keys) : Get(question.rows, r).has_cells}

\* the keys stand in row-key sort order, each key of S once
SortedOnce(ks, S) ==
    /\ Len(ks) = Cardinality(S)
    /\ {ks[i] : i \in DOMAIN ks} = S
    /\ \A i, j \in DOMAIN ks :
           i < j => ~RowKeyLess(sort_row_key(ks[j]), sort_row_key(ks[i]))

\* the header label of a column key
HeaderLabel(question, col_key) ==
    IF Has(question.col_headers, col_key) THEN Get(question.col_headers, col_key)
    ELSE "Col " \o col_key

\* the row binds the column and the respondent's value in it is not empty
CellAnswered(question, row, row_key, col_key) ==
    /\ Has(Get(question.rows, row_key).cells, col_key)
    /\ ~is_empty(row_get(row, Get(Get(question.rows, row_key).cells, col_key).id))

\* the cell shows the respondent's value if answered and a dash otherwise
CellShows(question, row, row_key, col_key, cell) ==
    IF CellAnswered(question, row, row_key, col_key)
    THEN /\ cell.mark # "dash"
         /\ cell.text
              = safe_str(row_get(row, Get(Get(question.rows, row_key).cells, col_key).id))
    ELSE cell = [mark |-> "dash", text |-> ""]

\* the grid's rows are those of the keys ks, a cell per column of col_order
RowsShow(a, ks) ==
    /\ Len(a.answer.rows) = Len(ks)
    /\ \A r \in DOMAIN ks :
           /\ a.answer.rows[r].label = Get(a.question.rows, ks[r]).label
           /\ Len(a.answer.rows[r].cells) = Len(a.question.col_order)
           /\ \A c \in DOMAIN a.question.col_order :
                  CellShows(a.question, a.row, ks[r], a.question.col_order[c],
                            a.answer.rows[r].cells[c])

\* C28: a grid emitted by format_matrix_response has the question's column
\* keys as its header, in col_order order; it has one row for each row that
\* carries cells, in row-key sort order, with one cell per column of the
\* grid; a cell shows the formatted value iff the row binds the column and
\* the respondent's value in the bound column is not empty, and a dash
\* otherwise, so that a row without an answered cell is a row of dashes.
C28_GridStructure ==
    \A a \in GridAnswers :
        /\ FormatterOf(a.question) = "matrix"
        /\ a.answer.cols
             = [c \in DOMAIN a.question.col_order |->
                   HeaderLabel(a.question, a.question.col_order[c])]
        /\ \E ks \in [1..Cardinality(CellRows(a.question)) -> CellRows(a.question)] :
               SortedOnce(ks, CellRows(a.question)) /\ RowsShow(a, ks)

\* a grid of two rows and two columns with a row of dashes, a row that does
\* not bind a column of the grid, and rows emitted in an order other than
\* the one they were bound in
C28_Witness ==
    \E a \in GridAnswers :
        /\ Len(a.answer.rows) >= 2 /\ Len(a.answer.cols) >= 2
        /\ \E r \in DOMAIN a.answer.rows :
               \A c \in DOMAIN a.answer.rows[r].cells : a.answer.rows[r].cells[c].mark = "dash"
        /\ \E r \in CellRows(a.question) : \E c \in DOMAIN a.question.col_order :
               ~Has(Get(a.question.rows, r).cells, a.question.col_order[c])

\* a grid whose rows stand in sorted order, not in the order they were bound
C28_RowsResorted ==
    \E a \in GridAnswers :
        /\ Len(a.answer.rows) >= 2
        /\ a.question.rows.keys # SortRowKeys(a.question.rows.keys, Len(a.question.rows.keys))

\* the columns recorded for the question that the respondent answered
AnsweredColumns(question, row) ==
    {i \in DOMAIN question.columns : ~is_empty(row_get(row, question.columns[i]))}

\* the places of an answer that show a value: the rows of a checkmark table,
\* the cells other than dashes of any other answer
ShownPlaces(answer) ==
    IF answer.kind = "checkmark" THEN {<<r, 1>> : r \in DOMAIN answer.rows}
    ELSE {rc \in UNION {{<<r, c>> : c \in DOMAIN answer.rows[r].cells} :
                           r \in DOMAIN answer.rows} :
             answer.rows[rc[1]].cells[rc[2]].mark # "dash"}

\* the value stands in the answer: as the text of a cell or, in a checkmark
\* table, as a row with a check under each of its tokens and under no other
Appears(answer, val_str) ==
    IF answer.kind = "checkmark"
    THEN \E r \in DOMAIN answer.rows :
            {answer.cols[c] : c \in {c \in DOMAIN answer.cols :
                                        answer.rows[r].cells[c].mark = "yes"}}
                = Tokens(val_str)
    ELSE \E rc \in ShownPlaces(answer) : answer.rows[rc[1]].cells[rc[2]].text = val_str

\* the answer shows each value the respondent gave in the question's columns
NoneLost(a) ==
    /\ \A i \in AnsweredColumns(a.question, a.row) :
           Appears(a.answer, safe_str(row_get(a.row, a.question.columns[i])))
    /\ Cardinality(ShownPlaces(a.answer)) >= Cardinality(AnsweredColumns(a.question, a.row))

\* C29: no answer is lost: for every question structure and every row
\* rendered, each non-empty value in a column recorded for the question
\* appears in the answer rendered for the respondent, also when the header
\* mixes a bare column with sub-indexed columns.
C29_NoAnswerLost == \A a \in CardAnswers : NoneLost(a)

\* the columns the question's rows and cells bind
BoundIds(question) ==
    {Get(question.rows, r).id : r \in {r \in Elems(question.rows.keys) :
                                          ~Get(question.rows, r).has_cells}}
    \cup CellIds(question.rows)

\* the question has no rows, or each of its columns is bound by a row or cell
EveryColumnBound(question) ==
    \/ question.rows.keys = <<>> /\ FormatterOf(question) # "single"
    \/ question.rows.keys = <<>> /\ Len(question.columns) = 1
    \/ /\ question.rows.keys # <<>>
       /\ Elems(question.columns) \subseteq BoundIds(question)
       /\ FormatterOf(question) = "matrix" =>
              \A r \in Elems(question.rows.keys) : Get(question.rows, r).has_cells

\* C29 for the questions all of whose columns are bound, apart from the
\* answers whose rendering raises
C29_NoneLostWhenBound ==
    \A a \in CardAnswers :
        (a.answer.raised = "" /\ EveryColumnBound(a.question)) => NoneLost(a)

\* a value lost without an exception: the question has a bare column next to
\* its sub-indexed ones, and the answer rendered lacks the bare column's value
C29_LostInBareColumn ==
    \E a \in CardAnswers :
        /\ a.answer.raised = ""
        /\ ~NoneLost(a)
        /\ \E i \in AnsweredColumns(a.question, a.row) :
               /\ a.question.columns[i] \notin BoundIds(a.question)
               /\ ParseFromCsv(a.question.columns[i]).sub1 = ""

\* C30: listing and rendering agree: the answer rendered for a respondent
\* listed in a question's card (has_response holds for the question and the
\* row) is never the empty-indicator; the renderer returns the
\* empty-indicator only if no column recorded for the question has a
\* non-empty value in the row.
C30_ListedHasAnswer ==
    \A a \in CardAnswers :
        /\ has_response(a.question, a.row)
        /\ a.answer.kind = "empty" => AnsweredColumns(a.question, a.row) = {}

\* every respondent listed in a card has a value in one of the question's
\* columns
C30_ListedHasResponse == \A a \in CardAnswers : has_response(a.question, a.row)

\* C30 for the questions all of whose columns are bound
C30_AgreeWhenBound ==
    \A a \in CardAnswers : EveryColumnBound(a.question) => a.answer.kind # "empty"

\* a respondent listed with the empty-indicator: the value is in a bare
\* column and the renderer reads the sub-indexed columns only
C30_ListedWithIndicator ==
    \E a \in CardAnswers :
        /\ a.answer.kind = "empty"
        /\ has_response(a.question, a.row)
        /\ \A i \in AnsweredColumns(a.question, a.row) :
               a.question.columns[i] \notin BoundIds(a.question)

====
